---- MODULE Spec2Model ----
(***************************************************************************)
(* Sturgeon diagnostic-debate service: the debate-turn handlers, the       *)
(* session table of ClinicalState objects and the Gemini/MedGemma          *)
(* orchestrator (src/ai-service/main.py, src/ai-service/                   *)
(* gemini_orchestrator.py), with the Modal deployment's handler            *)
(* (src/modal_backend/app.py) beside them.                                 *)
(*                                                                         *)
(* Text is abstracted to tokens: what a model returns is an input drawn    *)
(* from a small set, what the code computes from it is computed here.      *)
(***************************************************************************)
EXTENDS Integers, Sequences, FiniteSets, TLC

VARIABLES
    sessions,           \* _sessions: insertion-ordered dict, a sequence of [sid, obj]
    heap,               \* the ClinicalState objects, by object id
    turns,              \* the requests in flight, by handler slot
    gemini_available,   \* _gemini_available, fixed at startup
    medgemma_executor,  \* _medgemma_executor: the worker's task and the queue
    libcall,            \* a library function applied to an argument, and its outcome
    limiter,            \* the RateLimiter of one endpoint, and the clock
    modal_app           \* the Modal app's retrieval cache, its counters and clock

vars ==
    <<sessions, heap, turns, gemini_available, medgemma_executor, libcall, limiter,
      modal_app>>

\* the state of the debate-turn service
service == <<sessions, heap, turns, gemini_available, medgemma_executor>>
\* the state of the library units
units == <<libcall, limiter, modal_app>>

----------------------------------------------------------------------------
(* Bounds of the model *)

\* MAX_SESSIONS = int(os.getenv("MAX_SESSIONS", "500")): the capacity of the
\* session table; the deployment modelled sets the variable to 2
MAX_SESSIONS == 2
\* a session takes no further turn once its debate_round reaches this (Spec)
MaxRound == 10
\* the same cap in the specifications that run several sessions
MaxRoundWide == 2
\* the longest previous_rounds list a request carries
MaxPrev == 4
\* SpecEvict: turns a session state takes
MaxRoundEvict == 1
\* key_findings / ruled_out stop growing at this length (the model's
\* synthesis output carries no further update then)
MaxFindings == 2
\* DEFAULT_TIMEOUT_SECONDS counted in clock ticks (SpecExec)
TimeoutTicks == 2
\* the longest MedGemma generation that ends, in clock ticks (SpecExec)
MaxDuration == 2
\* RateLimiter(max_requests, window_seconds) as SpecLimiter constructs it, the
\* window in clock ticks
max_requests == 2
window_seconds == 3
\* the clock of SpecLimiter stops here
MaxNow == 7
\* the passages of a text extract_citations is applied to
MaxPassages == 3

----------------------------------------------------------------------------
(* Values *)

None == "None"

ObjIds == 1..(MAX_SESSIONS + 3)

DeadState ==
    [live |-> FALSE, patient_history |-> "", image_context |-> "",
     differential |-> <<>>, key_findings |-> <<>>, ruled_out |-> <<>>,
     debate_round |-> 0, episode_summaries |-> <<>>, last_episode_round |-> 0]

\* ClinicalState(patient_history=..., lab_values=..., differential=...,
\*               image_context=request.image_context or "")
ClinicalState(patient_history, differential, image_context) ==
    [live |-> TRUE, patient_history |-> patient_history,
     image_context |-> image_context,
     differential |-> differential, key_findings |-> <<>>, ruled_out |-> <<>>,
     debate_round |-> 0, episode_summaries |-> <<>>, last_episode_round |-> 0]

\* `x or ""` for an Optional[str]
OrEmpty(x) == IF x = None THEN "" ELSE x

\* what MedGemma's analysis is: its answer, or the canned timeout text
NoAnalysis == [guidance |-> FALSE, quoted |-> "", text |-> "none"]
MedgemmaAnswer == [guidance |-> FALSE, quoted |-> "", text |-> "analysis"]

\* a slip: the timeout text does not quote the question
generate_timeout_response_unquoted(question) ==
    [guidance |-> TRUE, quoted |-> "", text |-> "timeout"]

\* _generate_timeout_response(question): the guidance text, quoting the
\* question it was given
generate_timeout_response(question) ==
    [guidance |-> TRUE, quoted |-> question, text |-> "timeout"]

\* what a retrieval task meets: whether get_retriever, retrieve's vector
\* search or format_retrieved_context raises, whether the retriever is
\* initialized, its rate limiter lets the query pass, its validator accepts
\* the query, the distances of the chunks found (in tenths) and the seconds
\* the task takes
Retrieval(raises, initialized, allowed, valid, distances, seconds) ==
    [raises |-> raises, initialized |-> initialized, allowed |-> allowed,
     valid |-> valid, distances |-> distances, seconds |-> seconds]

NoRetrieval == Retrieval("none", FALSE, FALSE, FALSE, <<>>, 0)

NoResponse ==
    [status |-> 0, ai_response |-> "", updated_differential |-> <<>>,
     suggested_test |-> None, session_id |-> None, orchestrated |-> FALSE]

\* a handler slot: the request's fields the turn still reads, the locals of
\* the handler and of process_debate_turn, and the response once built.
\* round0, last0 and nsum0 record the session's debate_round,
\* last_episode_round and number of summaries when the handler fetched the
\* state; timed_out, synthesized, summary_call, fallback_runs and generations
\* record what the turn went through. future is the state of the Future the
\* turn waits on, waited the ticks it has waited, call_duration the running
\* time of its MedGemma call, specialist_raised whether that call's
\* exception left process_debate_turn; key_findings_update and
\* newly_ruled_out are those fields of the parsed synthesis result.
\* rag_task is the state of the retrieval task of the turn, retrieval what
\* the task met, rag_waited the seconds the handler waited for it,
\* retrieved_context what the handler passes to process_debate_turn.
\* odd_round is the place, counted from the end of previous_rounds, of a
\* round whose user_challenge is null (0: every round has its texts);
\* summary_raised whether _create_episode_summary raised; calls the calls
\* of Gemini and of MedGemma that process_debate_turn has made, in order.
IdleTurn ==
    [pc |-> "idle", session_id |-> None, obj |-> 0, oldest_session |-> None,
     patient_history |-> "", current_differential |-> <<>>, nPrev |-> 0,
     round0 |-> 0, last0 |-> 0, nsum0 |-> 0,
     question |-> "", analysis |-> NoAnalysis, timed_out |-> FALSE,
     synthesized |-> FALSE, summary_call |-> "none",
     fallback_runs |-> 0, generations |-> 0, response |-> NoResponse,
     future |-> "none", waited |-> 0, call_duration |-> 0,
     specialist_raised |-> FALSE,
     key_findings_update |-> <<>>, newly_ruled_out |-> <<>>,
     validations |-> 0, has_hallucination |-> FALSE,
     rag_task |-> "none", retrieval |-> NoRetrieval, rag_waited |-> 0,
     retrieved_context |-> "", odd_round |-> 0, summary_raised |-> FALSE,
     calls |-> <<>>]

----------------------------------------------------------------------------
(* The session table: a dict in insertion order *)

SessionIdsOf(tbl) == {tbl[i].sid : i \in 1..Len(tbl)}

Lookup(tbl, sid) == (CHOOSE i \in 1..Len(tbl) : tbl[i].sid = sid)

ObjOf(tbl, sid) == tbl[Lookup(tbl, sid)].obj

\* a slip: a state popped from the table is gone, whoever holds it
Referenced_none(ts) == {}

\* objects some in-flight turn still holds a reference to
Referenced(ts) == {ts[t].obj : t \in DOMAIN ts} \ {0}

\* an object neither in the table nor referenced by a turn is garbage
Collect(h, tbl, ts) ==
    [o \in ObjIds |->
        IF o \in {tbl[i].obj : i \in 1..Len(tbl)} \cup Referenced(ts)
        THEN h[o] ELSE DeadState]

FreeObj(h) == CHOOSE o \in ObjIds : ~h[o].live /\ \A p \in ObjIds : ~h[p].live => o <= p

\* a slip: the newest session is evicted
EvictOldest_newest(tbl) ==
    IF Len(tbl) >= MAX_SESSIONS THEN SubSeq(tbl, 1, Len(tbl) - 1) ELSE tbl

\* if len(_sessions) >= MAX_SESSIONS:
\*     oldest_session = next(iter(_sessions)); _sessions.pop(oldest_session, None)
EvictOldest(tbl) ==
    IF Len(tbl) >= MAX_SESSIONS THEN Tail(tbl) ELSE tbl

----------------------------------------------------------------------------
(* Texts and JSON values *)

\* a text is a sequence of characters; the words ai_response and name are
\* written as one character each
LBRACE == "{"
RBRACE == "}"
LBRACK == "["
RBRACK == "]"
QUOTE == "\""
COLON == ":"
COMMA == ","
BACKSLASH == "\\"
SPACE == " "
NEWLINE == "\n"
Whitespace == {SPACE, NEWLINE}
Digits == {"1", "2"}

\* the values json.loads returns: str, int, dict (its items in insertion
\* order) and list
Str(s) == [t |-> "str", v |-> s]
Num(d) == [t |-> "num", v |-> d]
Obj(items) == [t |-> "obj", v |-> items]
Arr(elems) == [t |-> "arr", v |-> elems]
Item(k, val) == [k |-> k, val |-> val]

\* Python's None
Null == [t |-> "null", v |-> <<>>]

NoValue == [t |-> "none", v |-> <<>>]
\* what a parsing step gives: the value and the position after it
Parsed(val, pos) == [ok |-> TRUE, val |-> val, pos |-> pos]
Failed == [ok |-> FALSE, val |-> NoValue, pos |-> 0]

\* d[k] = val: a key already present keeps its place
RECURSIVE DictSet(_, _, _)
DictSet(items, k, val) ==
    IF items = <<>> THEN <<Item(k, val)>>
    ELSE IF Head(items).k = k THEN <<Item(k, val)>> \o Tail(items)
    ELSE <<Head(items)>> \o DictSet(Tail(items), k, val)

HasKey(items, k) == \E i \in 1..Len(items) : items[i].k = k

\* d.get(k, default)
DictGet(items, k, default) ==
    IF HasKey(items, k)
    THEN items[CHOOSE i \in 1..Len(items) : items[i].k = k].val
    ELSE default

----------------------------------------------------------------------------
(* Diagnoses *)

\* Diagnosis(name=..., probability=..., ...).model_dump()
Diagnosis(name, probability, supporting_evidence, against_evidence, suggested_tests) ==
    Obj(<<Item(<<"name">>, name),
          Item(<<"probability">>, probability),
          Item(<<"supporting_evidence">>, supporting_evidence),
          Item(<<"against_evidence">>, against_evidence),
          Item(<<"suggested_tests">>, suggested_tests)>>)

\* a diagnosis of the client's current_differential
DxA ==
    Diagnosis(Str(<<"dxA">>), Str(<<"high">>), Arr(<<Str(<<"e1">>)>>), Arr(<<>>),
              Arr(<<>>))

\* a diagnosis as the prompts ask the models for it
DxC ==
    Diagnosis(Str(<<"dxC">>), Str(<<"low">>), Arr(<<Str(<<"e1">>)>>),
              Arr(<<Str(<<"e2">>)>>), Arr(<<Str(<<"t1">>)>>))

\* diagnoses under the other field names, with a probability that is none of
\* the three and evidence that is one text
DxAlt1 ==
    Obj(<<Item(<<"diagnosis">>, Str(<<"dxC">>)),
          Item(<<"likelihood">>, Str(<<"likely">>)),
          Item(<<"supporting">>, Str(<<"e1">>)),
          Item(<<"against">>, Arr(<<Str(<<"e2">>)>>)),
          Item(<<"tests">>, Arr(<<Str(<<"t1">>)>>))>>)

DxAlt2 ==
    Obj(<<Item(<<"diagnosis_name">>, Str(<<"dxD">>)),
          Item(<<"probability">>, Str(<<"High">>)),
          Item(<<"evidence_for">>, Arr(<<Str(<<"e1">>)>>)),
          Item(<<"evidence_against">>, Arr(<<Str(<<"e2">>)>>)),
          Item(<<"workup">>, Arr(<<Str(<<"t1">>)>>))>>)

\* a diagnosis with an empty name beside a diagnosis field, and both
\* probability and likelihood
DxBoth ==
    Obj(<<Item(<<"name">>, Str(<<>>)),
          Item(<<"diagnosis">>, Str(<<"dxC">>)),
          Item(<<"probability">>, Str(<<"low">>)),
          Item(<<"likelihood">>, Str(<<"high">>))>>)

\* an entry of updated_differential that is a text
NotADict == Str(<<"dxC">>)

\* a list of the alternate-name diagnoses
AltDiff == <<DxAlt1, DxAlt2>>

----------------------------------------------------------------------------
(* Requests and model outputs: the inputs of a specification *)

\* previous_rounds, by its length: empty, under 4, 4 and more
PrevLens == {0, 3} \cup (4..MaxPrev)

\* str(uuid.uuid4()): an id no session has
UuidPool == {"u1"}

SessionIds == {"s1", "s2"}

\* Spec follows one session through MaxRound turns
EnvDeep ==
    [ids |-> {"s1"},
     profiles |-> {[patient_history |-> "hx1", image_context |-> None]},
     diffs |-> {<<DxA>>},
     prevs |-> PrevLens,
     cap |-> MaxRound,
     questions |-> {"q1", "q2"},
     findings |-> MaxFindings,
     responses |-> {"synth", "relay"},
     out_diffs |-> {<<>>, AltDiff},
     tests |-> {None, "test"},
     fallback_diffs |-> {<<>>, AltDiff, <<NotADict, DxBoth>>},
     hallucinations |-> BOOLEAN,
     rag_available |-> FALSE,
     odd_rounds |-> {0}]

\* SpecSessions has more sessions than the table holds, few rounds each
EnvWide ==
    [ids |-> SessionIds \cup {None},
     profiles |-> {[patient_history |-> "hx1", image_context |-> None],
                   [patient_history |-> "hx2", image_context |-> "img1"]},
     diffs |-> {<<>>, <<DxA>>},
     prevs |-> {0},
     cap |-> MaxRoundWide,
     questions |-> {"q1"},
     findings |-> 0,
     responses |-> {"synth", "relay"},
     out_diffs |-> {<<>>, <<DxC>>},
     tests |-> {None, "test"},
     fallback_diffs |-> {<<>>, <<DxC>>, <<NotADict>>},
     hallucinations |-> BOOLEAN,
     rag_available |-> FALSE,
     odd_rounds |-> {0}]

\* SpecSummary: one session through MaxRound turns, with previous_rounds
\* that may hold a round whose user_challenge is null. Such a round passes
\* the two prompt builders, which slice only the ai_response of the last two
\* rounds.
EnvSummary ==
    [ids |-> {"s1"},
     profiles |-> {[patient_history |-> "hx1", image_context |-> None]},
     diffs |-> {<<DxA>>},
     prevs |-> PrevLens,
     cap |-> MaxRound,
     questions |-> {"q1"},
     findings |-> 1,
     responses |-> {"synth"},
     out_diffs |-> {<<>>, AltDiff},
     tests |-> {None},
     fallback_diffs |-> {<<>>},
     hallucinations |-> {FALSE},
     rag_available |-> FALSE,
     odd_rounds |-> {0, 1, MaxPrev}]

\* SpecEvict: two handlers at a time and one session more than the table holds
EnvEvict ==
    [ids |-> SessionIds \cup {None},
     profiles |-> {[patient_history |-> "hx1", image_context |-> None]},
     diffs |-> {<<DxA>>},
     prevs |-> {0},
     cap |-> MaxRoundEvict,
     questions |-> {"q1"},
     findings |-> 0,
     responses |-> {"synth"},
     out_diffs |-> {<<DxC>>},
     tests |-> {None},
     fallback_diffs |-> {<<>>},
     hallucinations |-> {FALSE},
     rag_available |-> FALSE,
     odd_rounds |-> {0}]

\* the DebateTurnRequests of an environment; a differential is a list of
\* Diagnosis objects, previous_rounds a list of nPrev dicts
AllRequests(env) ==
    {[session_id |-> i, patient_history |-> p.patient_history,
      image_context |-> p.image_context, current_differential |-> d,
      nPrev |-> n, odd_round |-> k] :
          i \in env.ids, p \in env.profiles, d \in env.diffs,
          n \in env.prevs, k \in env.odd_rounds}

Requests(env) == {req \in AllRequests(env) : req.odd_round <= req.nPrev}

InFlight(ts, sid) == \E u \in DOMAIN ts : ts[u].pc # "idle" /\ ts[u].session_id = sid

----------------------------------------------------------------------------
(* ai-service: _debate_turn_orchestrated, session bookkeeping *)

\* a slip: an existing session takes the patient history of each request
GetOrCreateSession_refresh(tbl, h, session_id, req) ==
    IF session_id \in SessionIdsOf(tbl)
    THEN [tbl |-> tbl,
          heap |-> [h EXCEPT ![ObjOf(tbl, session_id)].patient_history =
                                 req.patient_history]]
    ELSE LET o == FreeObj(h)
         IN [tbl |-> Append(EvictOldest(tbl), [sid |-> session_id, obj |-> o]),
             heap |-> [h EXCEPT ![o] =
                          ClinicalState(req.patient_history,
                                        req.current_differential,
                                        OrEmpty(req.image_context))]]

\* if session_id not in _sessions: [evict;] _sessions[session_id] = ClinicalState(...)
\* the table and the heap after the get-or-create
GetOrCreateSession(tbl, h, session_id, req) ==
    IF session_id \in SessionIdsOf(tbl)
    THEN [tbl |-> tbl, heap |-> h]
    ELSE LET o == FreeObj(h)
         IN [tbl |-> Append(EvictOldest(tbl), [sid |-> session_id, obj |-> o]),
             heap |-> [h EXCEPT ![o] =
                          ClinicalState(req.patient_history,
                                        req.current_differential,
                                        OrEmpty(req.image_context))]]

\* oldest_session = next(iter(_sessions)), when the handler evicts
OldestSession(tbl, session_id) ==
    IF session_id \notin SessionIdsOf(tbl) /\ Len(tbl) >= MAX_SESSIONS
    THEN Head(tbl).sid ELSE None

\* a slip: the sync also resets the round counter
SyncDifferential_clears(st, current_differential) ==
    [st EXCEPT !.differential = current_differential, !.debate_round = 0]

\* clinical_state.differential = [d.model_dump() for d in request.current_differential]
SyncDifferential(st, current_differential) ==
    [st EXCEPT !.differential = current_differential]

\* /debate-turn with the orchestrator available, up to the first await of
\* the handler: rag_task = asyncio.create_task(...) if _rag_available,
\* session id, get-or-create with eviction, differential sync.  Without a
\* retrieval task the handler goes on to process_debate_turn, with one it
\* waits for the task.  Callers serialize the turns of one session; a session
\* at roundCap takes no further turn.
debate_turn_orchestrated(t, req, uuid, roundCap, rag_available) ==
    /\ turns[t].pc = "idle"
    /\ gemini_available
    /\ LET session_id == IF req.session_id = None THEN uuid ELSE req.session_id
           got == GetOrCreateSession(sessions, heap, session_id, req)
           o == ObjOf(got.tbl, session_id)
           h2 == [got.heap EXCEPT ![o] = SyncDifferential(@, req.current_differential)]
           ts == [turns EXCEPT ![t] =
                    [IdleTurn EXCEPT !.pc = IF rag_available THEN "rag_join"
                                            ELSE "formulate",
                                     !.rag_task = IF rag_available THEN "pending"
                                                  ELSE "none",
                                     !.session_id = session_id,
                                     !.obj = o,
                                     !.oldest_session = OldestSession(sessions, session_id),
                                     !.patient_history = req.patient_history,
                                     !.current_differential = req.current_differential,
                                     !.nPrev = req.nPrev,
                                     !.odd_round = req.odd_round,
                                     !.round0 = h2[o].debate_round,
                                     !.last0 = h2[o].last_episode_round,
                                     !.nsum0 = Len(h2[o].episode_summaries)]]
       IN /\ req.session_id = None =>
                uuid \notin SessionIdsOf(sessions) /\ ~InFlight(turns, uuid)
          /\ ~InFlight(turns, session_id)
          /\ h2[o].debate_round < roundCap
          /\ sessions' = got.tbl
          /\ turns' = ts
          /\ heap' = Collect(h2, got.tbl, ts)
    /\ UNCHANGED <<gemini_available, medgemma_executor, units>>

\* /debate-turn without the orchestrator: straight to the MedGemma-only path,
\* no session is touched
debate_turn_unavailable(t, req) ==
    /\ turns[t].pc = "idle"
    /\ ~gemini_available
    /\ turns' = [turns EXCEPT ![t] =
                    [IdleTurn EXCEPT !.pc = "fallback",
                                     !.session_id = req.session_id,
                                     !.patient_history = req.patient_history,
                                     !.current_differential = req.current_differential,
                                     !.nPrev = req.nPrev]]
    /\ UNCHANGED <<sessions, heap, gemini_available, medgemma_executor, units>>

----------------------------------------------------------------------------
(* ai-service: _debate_turn_orchestrated, the retrieval task *)

\* RAG_DISTANCE_THRESHOLD = 1.3, in tenths
RAG_DISTANCE_THRESHOLD == 13

\* asyncio.wait_for(rag_task, timeout=5.0)
RagTimeout == 5

\* the seconds a retrieval takes: within the timeout or beyond it
RagSeconds == {1, RagTimeout + 1}

\* SpecRag: the handler with the retriever available
EnvRag ==
    [ids |-> {"s1"},
     profiles |-> {[patient_history |-> "hx1", image_context |-> None]},
     diffs |-> {<<DxA>>},
     prevs |-> {0},
     cap |-> MaxRoundWide,
     questions |-> {"q1"},
     findings |-> 0,
     responses |-> {"synth"},
     out_diffs |-> {<<>>},
     tests |-> {None},
     fallback_diffs |-> {<<>>},
     hallucinations |-> {FALSE},
     rag_available |-> TRUE,
     odd_rounds |-> {0}]

\* the retrievals a task can meet
Retrievals ==
    {Retrieval(raises, initialized, allowed, valid, distances, seconds) :
        raises \in {"none", "get_retriever", "query", "format"},
        initialized \in BOOLEAN, allowed \in BOOLEAN, valid \in BOOLEAN,
        distances \in {<<>>, <<RAG_DISTANCE_THRESHOLD + 2>>,
                       <<RAG_DISTANCE_THRESHOLD - 3, RAG_DISTANCE_THRESHOLD + 2>>},
        seconds \in RagSeconds}

\* GuidelineRetriever.retrieve: (chunks, error_message)
retrieve(r) ==
    IF ~r.initialized THEN [chunks |-> <<>>, error |-> "Retriever not initialized"]
    ELSE IF ~r.allowed
         THEN [chunks |-> <<>>, error |-> "Rate limit exceeded. Try again later."]
    ELSE IF ~r.valid THEN [chunks |-> <<>>, error |-> "invalid query"]
    ELSE IF r.raises = "query" THEN [chunks |-> <<>>, error |-> "Retrieval error"]
    ELSE [chunks |-> r.distances, error |-> ""]

\* GuidelineRetriever.format_retrieved_context
format_retrieved_context(chunks) == IF chunks = <<>> THEN "" ELSE "guidelines"

\* a slip: the chunks found are formatted whatever retrieve reports
fetch_rag_context_unchecked(r) ==
    IF r.raises \in {"get_retriever", "format"} THEN ""
    ELSE format_retrieved_context(r.distances)

\* fetch_rag_context: "" on an error message, on no chunk within the distance
\* threshold and on any exception
fetch_rag_context(r) ==
    IF r.raises = "get_retriever" THEN ""
    ELSE LET got == retrieve(r)
             relevant_chunks == SelectSeq(got.chunks,
                                          LAMBDA d : d <= RAG_DISTANCE_THRESHOLD)
         IN IF got.error # "" THEN ""
            ELSE IF relevant_chunks = <<>> THEN ""
            ELSE IF r.raises = "format" THEN ""
            ELSE format_retrieved_context(relevant_chunks)

\* retrieved_context = await asyncio.wait_for(rag_task, timeout=5.0), except
\* asyncio.TimeoutError: retrieved_context = "".  The handler then calls
\* process_debate_turn.
rag_join(t) ==
    /\ turns[t].pc = "rag_join"
    /\ \E r \in Retrievals :
          turns' = [turns EXCEPT
                       ![t].pc = "formulate",
                       ![t].retrieval = r,
                       ![t].rag_waited = IF r.seconds > RagTimeout THEN RagTimeout
                                         ELSE r.seconds,
                       ![t].rag_task = IF r.seconds > RagTimeout THEN "cancelled"
                                       ELSE "done",
                       ![t].retrieved_context =
                           IF r.seconds > RagTimeout THEN ""
                           ELSE fetch_rag_context(r)]
    /\ UNCHANGED <<sessions, heap, gemini_available, medgemma_executor, units>>

----------------------------------------------------------------------------
(* GeminiOrchestrator.process_debate_turn, in its worker thread *)

\* a slip: the round is counted twice
IncrementRound_twice(st) == [st EXCEPT !.debate_round = @ + 2]

\* clinical_state.debate_round += 1
IncrementRound(st) == [st EXCEPT !.debate_round = @ + 1]

\* round increment, state summary, Gemini call 1 (question formulation):
\* the call returns a question or raises
pdt_formulate(t, env) ==
    /\ turns[t].pc = "formulate"
    /\ heap' = [heap EXCEPT ![turns[t].obj] = IncrementRound(@)]
    /\ \/ \E q \in env.questions :
            turns' = [turns EXCEPT ![t].pc = "specialist", ![t].question = q,
                                   ![t].calls = Append(@, "formulate")]
       \/ turns' = [turns EXCEPT ![t].pc = "fallback"]
    /\ UNCHANGED <<sessions, gemini_available, medgemma_executor, units>>

\* what future.result(timeout=DEFAULT_TIMEOUT_SECONDS) gives the turn:
\* the answer, or on FutureTimeoutError the canned timeout text
AnalysisOf(outcome, question) ==
    IF outcome = "timeout" THEN generate_timeout_response(question)
    ELSE MedgemmaAnswer

\* the MedGemma step as the turn sees it: an answer within the timeout, a
\* timeout, or the exception _query_medgemma raised (only FutureTimeoutError
\* is caught)
pdt_query_medgemma(t) ==
    /\ turns[t].pc = "specialist"
    /\ \/ \E outcome \in {"answer", "timeout"} :
            turns' = [turns EXCEPT ![t].pc = "synthesize",
                                   ![t].analysis = AnalysisOf(outcome, turns[t].question),
                                   ![t].timed_out = (outcome = "timeout"),
                                   ![t].calls = Append(@, "specialist")]
       \/ turns' = [turns EXCEPT ![t].pc = "fallback"]
    /\ UNCHANGED <<sessions, heap, gemini_available, medgemma_executor, units>>

\* the parsed synthesis outputs Gemini can produce for a state: ai_response is
\* Gemini's own prose ("synth") or prose that repeats the analysis it was
\* given ("relay"); well_typed is whether the handler can build a
\* DebateTurnResponse from the fields
\* a finding is a short text, written as a number: the model's Gemini words
\* the n-th finding of a session as n, so no two entries of a list are equal
Updates(cur, maxLen) ==
    IF Len(cur) < maxLen THEN {<<>>, <<Len(cur) + 1>>} ELSE {<<>>}

SynthesisResults(st, env) ==
    [ai_response : env.responses,
     updated_differential : env.out_diffs,
     suggested_test : env.tests,
     key_findings_update : Updates(st.key_findings, env.findings),
     newly_ruled_out : Updates(st.ruled_out, env.findings),
     well_typed : BOOLEAN]

\* a slip: the new findings replace the lists
ApplyUpdates_replace(st, result) ==
    [st EXCEPT
        !.key_findings = IF result.key_findings_update # <<>>
                         THEN result.key_findings_update ELSE @,
        !.ruled_out = IF result.newly_ruled_out # <<>>
                      THEN result.newly_ruled_out ELSE @,
        !.differential = IF result.updated_differential # <<>>
                         THEN result.updated_differential ELSE @]

\* "Update clinical state with new findings"
ApplyUpdates(st, result) ==
    [st EXCEPT
        !.key_findings = IF result.key_findings_update # <<>>
                         THEN @ \o result.key_findings_update ELSE @,
        !.ruled_out = IF result.newly_ruled_out # <<>>
                      THEN @ \o result.newly_ruled_out ELSE @,
        !.differential = IF result.updated_differential # <<>>
                         THEN result.updated_differential ELSE @]

Min(a, b) == IF a <= b THEN a ELSE b

\* the fallback text of _create_episode_summary names the number of rounds
FallbackSummary(n) == IF n = 4 THEN "covered_4_exchanges" ELSE "covered_5_exchanges"

\* what Gemini does when asked for an episode summary
SummaryOutcomes == {"text", "blank", "raise"}

\* _create_episode_summary(rounds), rounds by its length: "" under 4 rounds,
\* else Gemini's stripped text, else the fallback text when the call fails
create_episode_summary(nRounds, llm) ==
    IF nRounds < 4 THEN ""
    ELSE IF llm = "text" THEN "llm_summary"
    ELSE IF llm = "blank" THEN ""
    ELSE FallbackSummary(nRounds)

\* for i, r in enumerate(rounds, 1): ... challenge[:100] ..., ahead of the try:
\* slicing a user_challenge that is null raises TypeError
episode_context_raises(nRounds, odd_round) ==
    nRounds >= 4 /\ odd_round \in 1..nRounds

\* a slip: an episode every 4 rounds
ShouldSummarize_four(st, nPrev) ==
    st.debate_round - st.last_episode_round >= 4 /\ nPrev > 0

\* if rounds_since_last_episode >= 5 and previous_rounds:
ShouldSummarize(st, nPrev) ==
    st.debate_round - st.last_episode_round >= 5 /\ nPrev > 0

\* whether the episode step calls Gemini, and with which outcome
SummaryCall(st, nPrev, llm) ==
    IF ShouldSummarize(st, nPrev) /\ Min(nPrev, 5) >= 4 THEN llm ELSE "none"

\* a slip: the episode round is recorded without a summary being kept
SummarizeEpisode_marks(st, nPrev, llm) ==
    IF ShouldSummarize(st, nPrev)
    THEN [st EXCEPT !.last_episode_round = st.debate_round]
    ELSE st

\* "Hierarchical Summarization": the state after the episode step,
\* episode_rounds = previous_rounds[-5:]
SummarizeEpisode(st, nPrev, llm) ==
    IF ShouldSummarize(st, nPrev)
    THEN LET episode_summary == create_episode_summary(Min(nPrev, 5), llm)
         IN IF episode_summary # ""
            THEN [st EXCEPT !.episode_summaries = Append(@, episode_summary),
                            !.last_episode_round = st.debate_round]
            ELSE st
    ELSE st

\* Python's truth value of a JSON value: None, "", [] and {} are false
Truthy(val) == val.t # "null" /\ val.v # <<>>

\* dx.get(k1) or dx.get(k2) or ... or default
RECURSIVE GetOr(_, _, _)
GetOr(items, keys, default) ==
    IF keys = <<>> THEN default
    ELSE IF Truthy(DictGet(items, Head(keys), Null))
    THEN DictGet(items, Head(keys), Null)
    ELSE GetOr(items, Tail(keys), default)

\* support if isinstance(support, list) else [support]
AsList(val) == IF val.t = "arr" THEN val ELSE Arr(<<val>>)

\* "high", "medium", "low"
Probabilities == {<<"high">>, <<"medium">>, <<"low">>}

\* the body of _parse_differential's loop, for a dict dx
parse_dx(dx) ==
    LET name == GetOr(dx, <<<<"name">>, <<"diagnosis">>, <<"diagnosis_name">>>>,
                      Str(<<"Unknown">>))
        prob == GetOr(dx, <<<<"probability">>, <<"likelihood">>>>, Str(<<"medium">>))
        support == GetOr(dx, <<<<"supporting_evidence">>, <<"supporting">>,
                               <<"evidence_for">>>>, Arr(<<>>))
        against == GetOr(dx, <<<<"against_evidence">>, <<"against">>,
                               <<"evidence_against">>>>, Arr(<<>>))
        tests == GetOr(dx, <<<<"suggested_tests">>, <<"tests">>, <<"workup">>>>,
                       Arr(<<>>))
    IN Diagnosis(name,
                 IF prob.t = "str" /\ prob.v \in Probabilities
                 THEN prob ELSE Str(<<"medium">>),
                 AsList(support), AsList(against), AsList(tests))

\* _parse_differential: entries that are not dicts are dropped, the others
\* become Diagnosis objects
parse_differential(updated_diff) ==
    LET dicts == SelectSeq(updated_diff, LAMBDA dx : dx.t = "obj")
    IN [i \in 1..Len(dicts) |-> parse_dx(dicts[i].v)]

\* diagnoses if diagnoses else request.current_differential
DifferentialOrCurrent(updated_diff, current_differential) ==
    IF parse_differential(updated_diff) # <<>>
    THEN parse_differential(updated_diff) ELSE current_differential

\* DebateTurnResponse(..., session_id=session_id, orchestrated=True, ...)
OrchestratedResponse(result, current_differential, session_id) ==
    [status |-> 200, ai_response |-> result.ai_response,
     updated_differential |->
         DifferentialOrCurrent(result.updated_differential, current_differential),
     suggested_test |-> result.suggested_test,
     session_id |-> session_id, orchestrated |-> TRUE]

\* a slip: the episode summary is asked for ahead of the synthesis
SynthesisCalls_summary_first(call) ==
    IF call = "none" THEN <<"synthesize">> ELSE <<"summary", "synthesize">>

\* the Gemini calls of the second half of process_debate_turn: the synthesis
\* and, when _create_episode_summary gets as far as its call, the summary
SynthesisCalls(call) ==
    IF call = "none" THEN <<"synthesize">> ELSE <<"synthesize", "summary">>

\* Gemini call 2 (synthesis), _parse_orchestrator_response, the state updates
\* and the episode summary; then, back in the handler, the response is built.
\* The call raising, _create_episode_summary raising, or the response not
\* building, leads to the except clause, which takes the MedGemma-only path.
pdt_synthesize(t, env) ==
    /\ turns[t].pc = "synthesize"
    /\ \/ \E r \in SynthesisResults(heap[turns[t].obj], env), llm \in SummaryOutcomes :
            LET o == turns[t].obj
                st1 == ApplyUpdates(heap[o], r)
                st2 == SummarizeEpisode(st1, turns[t].nPrev, llm)
                call == SummaryCall(st1, turns[t].nPrev, llm)
                raises == /\ ShouldSummarize(st1, turns[t].nPrev)
                          /\ episode_context_raises(Min(turns[t].nPrev, 5),
                                                    turns[t].odd_round)
            IN /\ heap' = [heap EXCEPT ![o] = IF raises THEN st1 ELSE st2]
               /\ IF raises
                  THEN turns' = [turns EXCEPT ![t].pc = "fallback",
                                             ![t].synthesized = TRUE,
                                             ![t].key_findings_update =
                                                 r.key_findings_update,
                                             ![t].newly_ruled_out = r.newly_ruled_out,
                                             ![t].summary_raised = TRUE,
                                             ![t].calls = @ \o SynthesisCalls("none")]
                  ELSE IF r.well_typed
                  THEN turns' = [turns EXCEPT
                                    ![t].pc = "done",
                                    ![t].synthesized = TRUE,
                                    ![t].key_findings_update = r.key_findings_update,
                                    ![t].newly_ruled_out = r.newly_ruled_out,
                                    ![t].summary_call = call,
                                    ![t].calls = @ \o SynthesisCalls(call),
                                    ![t].response =
                                        OrchestratedResponse(r,
                                            turns[t].current_differential,
                                            turns[t].session_id)]
                  ELSE turns' = [turns EXCEPT ![t].pc = "fallback",
                                              ![t].synthesized = TRUE,
                                              ![t].key_findings_update =
                                                  r.key_findings_update,
                                              ![t].newly_ruled_out = r.newly_ruled_out,
                                              ![t].summary_call = call,
                                              ![t].calls = @ \o SynthesisCalls(call)]
       \/ /\ turns' = [turns EXCEPT ![t].pc = "fallback"]
          /\ UNCHANGED heap
    /\ UNCHANGED <<sessions, gemini_available, medgemma_executor, units>>

----------------------------------------------------------------------------
(* ai-service: the MedGemma-only path *)

\* a slip: the apology drops the differential
ApologyResponse_empty(current_differential) ==
    [status |-> 200, ai_response |-> "apology",
     updated_differential |-> <<>>,
     suggested_test |-> None, session_id |-> None, orchestrated |-> FALSE]

\* the except clause of _debate_turn_medgemma_only
ApologyResponse(current_differential) ==
    [status |-> 200, ai_response |-> "apology",
     updated_differential |-> current_differential,
     suggested_test |-> None, session_id |-> None, orchestrated |-> FALSE]

\* what MedGemma's JSON parses to on the MedGemma-only path
FallbackData(env) ==
    [ai_response : {"medgemma_text"},
     updated_differential : env.fallback_diffs,
     suggested_test : env.tests, well_typed : BOOLEAN]

\* what the MedGemma-only path meets: the first generation, the validator's
\* verdict on it, the corrective generation, and the parsed data
FallbackRuns(env) ==
    [gen1 : {"ok", "raise"}, hallucination : env.hallucinations,
     gen2 : {"ok", "raise"}, data : FallbackData(env)]

\* a slip: the corrected output is validated and corrected again
FallbackGenerations_again(run) ==
    IF run.gen1 = "ok" /\ run.hallucination
    THEN (IF run.gen2 = "ok" THEN 3 ELSE 2) ELSE 1

\* the model.generate calls of the path: the second is the re-prompt "with
\* correction", made when the validator reports a hallucination
FallbackGenerations(run) ==
    IF run.gen1 = "ok" /\ run.hallucination THEN 2 ELSE 1

\* the validate_debate_response calls of the path: one, on the first output
FallbackValidations(run) == IF run.gen1 = "ok" THEN 1 ELSE 0

FallbackRaises(run) ==
    \/ run.gen1 = "raise"
    \/ run.hallucination /\ run.gen2 = "raise"
    \/ ~run.data.well_typed

\* _debate_turn_medgemma_only, whole: try ... return DebateTurnResponse(...,
\* orchestrated=False) except Exception: return the apology
MedgemmaOnlyResponse(current_differential, run) ==
    IF FallbackRaises(run)
    THEN ApologyResponse(current_differential)
    ELSE [status |-> 200, ai_response |-> run.data.ai_response,
          updated_differential |->
              DifferentialOrCurrent(run.data.updated_differential,
                                    current_differential),
          suggested_test |-> run.data.suggested_test,
          session_id |-> None, orchestrated |-> FALSE]

debate_turn_medgemma_only(t, env) ==
    /\ turns[t].pc = "fallback"
    /\ \E run \in FallbackRuns(env) :
         turns' = [turns EXCEPT
                      ![t].pc = "done",
                      ![t].fallback_runs = @ + 1,
                      ![t].generations = FallbackGenerations(run),
                      ![t].validations = FallbackValidations(run),
                      ![t].has_hallucination =
                          (run.gen1 = "ok" /\ run.hallucination),
                      ![t].response =
                          MedgemmaOnlyResponse(turns[t].current_differential, run)]
    /\ UNCHANGED <<sessions, heap, gemini_available, medgemma_executor, units>>

\* return JSONResponse(content=result.model_dump(), ...): the turn is over
send_response(t) ==
    /\ turns[t].pc = "done"
    /\ LET ts == [turns EXCEPT ![t] = IdleTurn]
       IN /\ turns' = ts
          /\ heap' = Collect(heap, sessions, ts)
    /\ UNCHANGED <<sessions, gemini_available, medgemma_executor, units>>

----------------------------------------------------------------------------
(* The MedGemma step on the single-worker executor, in clock ticks *)

\* the running time of a generation that never ends
Hang == 0 - 1
Durations == (1..MaxDuration) \cup {Hang}

\* a submitted _query_medgemma call: the slot whose turn waits on its Future
\* (0 once nobody waits), the ticks of work left, and how the call ends
NoTask == [owner |-> 0, left |-> 0, outcome |-> "none"]

\* ThreadPoolExecutor(max_workers=1): one worker thread, a FIFO work queue
IdleExecutor == [busy |-> FALSE, running |-> NoTask, queue |-> <<>>]

\* SpecExec: two sessions, two handler slots, short sessions
EnvExec ==
    [ids |-> SessionIds,
     profiles |-> {[patient_history |-> "hx1", image_context |-> None]},
     diffs |-> {<<DxA>>},
     prevs |-> {0},
     cap |-> MaxRoundWide,
     questions |-> {"q1"},
     findings |-> 0,
     responses |-> {"synth"},
     out_diffs |-> {<<>>},
     tests |-> {None},
     fallback_diffs |-> {<<>>},
     hallucinations |-> {FALSE},
     rag_available |-> FALSE,
     odd_rounds |-> {0}]

\* the _query_medgemma calls a turn can submit: a generation of any running
\* time that returns text, or one that raises after a tick
Calls ==
    [left : Durations, outcome : {"answer"}] \cup [left : {1}, outcome : {"raise"}]

\* self._medgemma_executor.submit(self._query_medgemma, ...): the call joins
\* the queue and the turn starts waiting in future.result(timeout=...)
executor_submit(t) ==
    /\ turns[t].pc = "specialist"
    /\ turns[t].future = "none"
    /\ \E call \in Calls :
         /\ medgemma_executor' =
                [medgemma_executor EXCEPT
                    !.queue = Append(@, [owner |-> t, left |-> call.left,
                                         outcome |-> call.outcome])]
         /\ turns' = [turns EXCEPT ![t].future = "pending",
                                   ![t].waited = 0,
                                   ![t].call_duration = call.left,
                                   ![t].calls = Append(@, "specialist")]
    /\ UNCHANGED <<sessions, heap, gemini_available, units>>

\* the worker thread, free, takes the first call of the queue
worker_start ==
    /\ ~medgemma_executor.busy
    /\ medgemma_executor.queue # <<>>
    /\ medgemma_executor' =
           [busy |-> TRUE,
            running |-> Head(medgemma_executor.queue),
            queue |-> Tail(medgemma_executor.queue)]
    /\ UNCHANGED <<sessions, heap, turns, gemini_available, units>>

\* _query_medgemma returns or raises: the Future is set and the worker is free
worker_finish ==
    /\ medgemma_executor.busy
    /\ medgemma_executor.running.left = 0
    /\ medgemma_executor' =
           [medgemma_executor EXCEPT !.busy = FALSE, !.running = NoTask]
    /\ LET task == medgemma_executor.running
       IN turns' = IF task.owner = 0 THEN turns
                   ELSE [turns EXCEPT ![task.owner].future = task.outcome]
    /\ UNCHANGED <<sessions, heap, gemini_available, units>>

Waiting(t) == turns[t].pc = "specialist" /\ turns[t].future = "pending"

\* one tick of the clock: the running generation advances and every waiting
\* turn has waited one tick more. Whatever is due happens before the clock
\* moves on: a free worker takes the next call, a finished call sets its
\* Future, a set Future or an expired timeout wakes its turn.
tick ==
    /\ \/ \E t \in DOMAIN turns : Waiting(t)
       \/ medgemma_executor.busy /\ medgemma_executor.running.left > 0
    /\ \A t \in DOMAIN turns :
          turns[t].pc = "specialist" =>
              /\ turns[t].future = "pending"
              /\ turns[t].waited < TimeoutTicks
    /\ medgemma_executor.busy \/ medgemma_executor.queue = <<>>
    /\ medgemma_executor.busy => medgemma_executor.running.left # 0
    /\ medgemma_executor' =
           [medgemma_executor EXCEPT
               !.running.left = IF medgemma_executor.busy /\ @ > 0 THEN @ - 1 ELSE @]
    /\ turns' = [t \in DOMAIN turns |->
                    IF Waiting(t) THEN [turns[t] EXCEPT !.waited = @ + 1]
                    ELSE turns[t]]
    /\ UNCHANGED <<sessions, heap, gemini_available, units>>

\* future.result(...) returns the answer, or re-raises what the call raised:
\* nothing but FutureTimeoutError is caught, so the exception leaves
\* process_debate_turn and the handler's except clause takes over
executor_result(t) ==
    /\ turns[t].pc = "specialist"
    /\ turns[t].future \in {"answer", "raise"}
    /\ turns' = IF turns[t].future = "answer"
                THEN [turns EXCEPT ![t].pc = "synthesize",
                                   ![t].waited = 0,
                                   ![t].analysis = AnalysisOf("answer", turns[t].question)]
                ELSE [turns EXCEPT ![t].pc = "fallback",
                                   ![t].waited = 0,
                                   ![t].specialist_raised = TRUE]
    /\ UNCHANGED <<sessions, heap, gemini_available, medgemma_executor, units>>

\* the call of slot t, wherever it is in the executor, has no waiter any more
Abandon(ex, t) ==
    [ex EXCEPT !.running.owner = IF @ = t THEN 0 ELSE @,
               !.queue = [i \in 1..Len(@) |->
                            [@[i] EXCEPT !.owner = IF @ = t THEN 0 ELSE @]]]

\* future.result raises FutureTimeoutError after DEFAULT_TIMEOUT_SECONDS: the
\* turn goes on with the canned text; the call stays where it is
executor_timeout(t) ==
    /\ Waiting(t)
    /\ turns[t].waited >= TimeoutTicks
    /\ turns' = [turns EXCEPT ![t].pc = "synthesize",
                              ![t].waited = 0,
                              ![t].analysis = AnalysisOf("timeout", turns[t].question),
                              ![t].timed_out = TRUE]
    /\ medgemma_executor' = Abandon(medgemma_executor, t)
    /\ UNCHANGED <<sessions, heap, gemini_available, units>>

----------------------------------------------------------------------------
(* Modal deployment: the /debate-turn handler of src/modal_backend/app.py *)

\* SpecModal: the Modal handler, one named session and generated ids
EnvModal ==
    [ids |-> {"s1", None},
     profiles |-> {[patient_history |-> "hx1", image_context |-> None]},
     diffs |-> {<<>>, <<DxA>>},
     prevs |-> {0},
     cap |-> MaxRoundWide,
     questions |-> {"q1"},
     findings |-> 0,
     responses |-> {"synth", "relay"},
     out_diffs |-> {<<>>, <<DxC>>},
     tests |-> {None, "test"},
     fallback_diffs |-> {<<>>, <<DxC>>, <<NotADict>>},
     hallucinations |-> BOOLEAN,
     odd_rounds |-> {0}]

\* debate_turn up to the call of process_debate_turn: session_id =
\* request_model.session_id or str(uuid.uuid4()), then
\* _debate_turn_orchestrated's get-or-create with eviction and differential sync
modal_debate_turn_orchestrated(t, req, uuid, roundCap) ==
    /\ turns[t].pc = "idle"
    /\ gemini_available
    /\ LET session_id == IF req.session_id = None THEN uuid ELSE req.session_id
           got == GetOrCreateSession(sessions, heap, session_id, req)
           o == ObjOf(got.tbl, session_id)
           h2 == [got.heap EXCEPT ![o] = SyncDifferential(@, req.current_differential)]
           ts == [turns EXCEPT ![t] =
                    [IdleTurn EXCEPT !.pc = "formulate",
                                     !.session_id = session_id,
                                     !.obj = o,
                                     !.oldest_session = OldestSession(sessions, session_id),
                                     !.patient_history = req.patient_history,
                                     !.current_differential = req.current_differential,
                                     !.nPrev = req.nPrev,
                                     !.round0 = h2[o].debate_round,
                                     !.last0 = h2[o].last_episode_round,
                                     !.nsum0 = Len(h2[o].episode_summaries)]]
       IN /\ req.session_id = None =>
                uuid \notin SessionIdsOf(sessions) /\ ~InFlight(turns, uuid)
          /\ ~InFlight(turns, session_id)
          /\ h2[o].debate_round < roundCap
          /\ sessions' = got.tbl
          /\ turns' = ts
          /\ heap' = Collect(h2, got.tbl, ts)
    /\ UNCHANGED <<gemini_available, medgemma_executor, units>>

\* debate_turn with self.gemini_available false: the MedGemma-only path
modal_debate_turn_unavailable(t, req, uuid) ==
    /\ turns[t].pc = "idle"
    /\ ~gemini_available
    /\ turns' = [turns EXCEPT ![t] =
                    [IdleTurn EXCEPT !.pc = "fallback",
                                     !.session_id = IF req.session_id = None
                                                    THEN uuid ELSE req.session_id,
                                     !.patient_history = req.patient_history,
                                     !.current_differential = req.current_differential,
                                     !.nPrev = req.nPrev]]
    /\ UNCHANGED <<sessions, heap, gemini_available, medgemma_executor, units>>

\* process_debate_turn of the Modal orchestrator, first part: round
\* increment, state summary, Gemini call 1
modal_pdt_formulate(t, env) ==
    /\ turns[t].pc = "formulate"
    /\ heap' = [heap EXCEPT ![turns[t].obj] = IncrementRound(@)]
    /\ \/ \E q \in env.questions :
            turns' = [turns EXCEPT ![t].pc = "specialist", ![t].question = q]
       \/ turns' = [turns EXCEPT ![t].pc = "fallback"]
    /\ UNCHANGED <<sessions, gemini_available, medgemma_executor, units>>

\* query_medgemma over HTTP: the content of a 200 reply, or RuntimeError
modal_query_medgemma(t) ==
    /\ turns[t].pc = "specialist"
    /\ \/ turns' = [turns EXCEPT ![t].pc = "synthesize",
                                  ![t].analysis = MedgemmaAnswer]
       \/ turns' = [turns EXCEPT ![t].pc = "fallback"]
    /\ UNCHANGED <<sessions, heap, gemini_available, medgemma_executor, units>>

\* what _parse_response gives for Gemini's synthesis output
ModalSynthesisResults ==
    [ai_response : {"synth"},
     updated_differential : {<<>>, <<DxC>>},
     suggested_test : {None, "test"},
     key_findings_update : {<<>>},
     newly_ruled_out : {<<>>},
     well_typed : BOOLEAN]

\* if result.get("updated_differential"):
\*     clinical_state.differential = result["updated_differential"]
ModalApplyUpdates(st, result) ==
    [st EXCEPT !.differential = IF result.updated_differential # <<>>
                                THEN result.updated_differential ELSE @]

\* Gemini call 2, _parse_response and the differential update; then the
\* handler builds the result dict, or the except clause takes the
\* MedGemma-only path
modal_pdt_synthesize(t) ==
    /\ turns[t].pc = "synthesize"
    /\ \/ \E r \in ModalSynthesisResults :
            LET o == turns[t].obj
            IN /\ heap' = [heap EXCEPT ![o] = ModalApplyUpdates(@, r)]
               /\ IF r.well_typed
                  THEN turns' = [turns EXCEPT
                                    ![t].pc = "done",
                                    ![t].synthesized = TRUE,
                                    ![t].response =
                                        OrchestratedResponse(r,
                                            turns[t].current_differential,
                                            turns[t].session_id)]
                  ELSE turns' = [turns EXCEPT ![t].pc = "fallback",
                                              ![t].synthesized = TRUE]
       \/ /\ turns' = [turns EXCEPT ![t].pc = "fallback"]
          /\ UNCHANGED heap
    /\ UNCHANGED <<sessions, gemini_available, medgemma_executor, units>>

\* debate_turn's except clause: JSONResponse({"error": ...}, status_code=500)
ModalErrorResponse ==
    [status |-> 500, ai_response |-> "", updated_differential |-> <<>>,
     suggested_test |-> None, session_id |-> None, orchestrated |-> FALSE]

\* the Modal _debate_turn_medgemma_only under debate_turn's try: its except
\* clause re-raises as RuntimeError, which the handler turns into a 500
ModalMedgemmaOnlyResponse(current_differential, session_id, run) ==
    IF FallbackRaises(run)
    THEN ModalErrorResponse
    ELSE [status |-> 200, ai_response |-> run.data.ai_response,
          updated_differential |->
              DifferentialOrCurrent(run.data.updated_differential,
                                    current_differential),
          suggested_test |-> run.data.suggested_test,
          session_id |-> session_id, orchestrated |-> FALSE]

modal_debate_turn_medgemma_only(t, env) ==
    /\ turns[t].pc = "fallback"
    /\ \E run \in FallbackRuns(env) :
         turns' = [turns EXCEPT
                      ![t].pc = "done",
                      ![t].fallback_runs = @ + 1,
                      ![t].generations = FallbackGenerations(run),
                      ![t].validations = FallbackValidations(run),
                      ![t].has_hallucination =
                          (run.gen1 = "ok" /\ run.hallucination),
                      ![t].response =
                          ModalMedgemmaOnlyResponse(turns[t].current_differential,
                                                    turns[t].session_id, run)]
    /\ UNCHANGED <<sessions, heap, gemini_available, medgemma_executor, units>>

----------------------------------------------------------------------------
(* Library units *)

\* libcall is the call of a library function under examination: the function,
\* whether it was called or has returned, its argument and what it gave back

----------------------------------------------------------------------------
(* rate_limiter: RateLimiter *)

\* the identifiers (client addresses) of the model
Identifiers == {"ip1", "ip2"}

\* no call of is_allowed yet
NoResult ==
    [identifier |-> "", at |-> 0, allowed |-> FALSE, remaining |-> 0,
     retry_after |-> 0]

\* RateLimiter.__init__: requests maps an identifier to its timestamps. now is
\* time.time(); last is what the latest is_allowed returned; granted lists
\* every timestamp at which an identifier was allowed, and is never cleaned.
RateLimiter ==
    [now |-> 0, requests |-> [id \in Identifiers |-> <<>>], last |-> NoResult,
     granted |-> [id \in Identifiers |-> <<>>]]

\* min(timestamps)
RECURSIVE SeqMin(_)
SeqMin(ts) ==
    IF Len(ts) = 1 THEN ts[1]
    ELSE LET m == SeqMin(Tail(ts)) IN IF ts[1] <= m THEN ts[1] ELSE m

\* a slip: the limit is tested with > instead of >=
is_allowed_lenient(lim, identifier) ==
    LET window_start == lim.now - window_seconds
        cleaned == SelectSeq(lim.requests[identifier], LAMBDA ts : ts > window_start)
        current_count == Len(cleaned)
    IN IF current_count > max_requests
       THEN [lim EXCEPT
                !.requests[identifier] = cleaned,
                !.last = [identifier |-> identifier, at |-> lim.now,
                          allowed |-> FALSE, remaining |-> 0,
                          retry_after |->
                              SeqMin(cleaned) + window_seconds - lim.now + 1]]
       ELSE [lim EXCEPT
                !.requests[identifier] = Append(cleaned, lim.now),
                !.granted[identifier] = Append(@, lim.now),
                !.last = [identifier |-> identifier, at |-> lim.now,
                          allowed |-> TRUE,
                          remaining |-> max_requests - current_count - 1,
                          retry_after |-> 0]]

\* a slip: a denied request is recorded, in the place of the oldest one
is_allowed_recording(lim, identifier) ==
    LET window_start == lim.now - window_seconds
        cleaned == SelectSeq(lim.requests[identifier], LAMBDA ts : ts > window_start)
        current_count == Len(cleaned)
    IN IF current_count >= max_requests
       THEN [lim EXCEPT
                !.requests[identifier] = Append(Tail(cleaned), lim.now),
                !.last = [identifier |-> identifier, at |-> lim.now,
                          allowed |-> FALSE, remaining |-> 0,
                          retry_after |->
                              SeqMin(cleaned) + window_seconds - lim.now + 1]]
       ELSE [lim EXCEPT
                !.requests[identifier] = Append(cleaned, lim.now),
                !.granted[identifier] = Append(@, lim.now),
                !.last = [identifier |-> identifier, at |-> lim.now,
                          allowed |-> TRUE,
                          remaining |-> max_requests - current_count - 1,
                          retry_after |-> 0]]

\* RateLimiter.is_allowed(identifier): the limiter after the call, with the
\* returned tuple in last
is_allowed(lim, identifier) ==
    LET window_start == lim.now - window_seconds
        cleaned == SelectSeq(lim.requests[identifier], LAMBDA ts : ts > window_start)
        current_count == Len(cleaned)
    IN IF current_count >= max_requests
       THEN [lim EXCEPT
                !.requests[identifier] = cleaned,
                !.last = [identifier |-> identifier, at |-> lim.now,
                          allowed |-> FALSE, remaining |-> 0,
                          retry_after |->
                              IF cleaned # <<>>
                              THEN SeqMin(cleaned) + window_seconds - lim.now + 1
                              ELSE window_seconds]]
       ELSE [lim EXCEPT
                !.requests[identifier] = Append(cleaned, lim.now),
                !.granted[identifier] = Append(@, lim.now),
                !.last = [identifier |-> identifier, at |-> lim.now,
                          allowed |-> TRUE,
                          remaining |-> max_requests - current_count - 1,
                          retry_after |-> 0]]

\* a request of a client reaches the limiter
is_allowed_call(identifier) ==
    /\ limiter' = is_allowed(limiter, identifier)
    /\ UNCHANGED <<service, libcall, modal_app>>

\* time passes
clock_tick ==
    /\ limiter.now < MaxNow
    /\ limiter' = [limiter EXCEPT !.now = @ + 1]
    /\ UNCHANGED <<service, libcall, modal_app>>

----------------------------------------------------------------------------
(* The JSON decoder *)

RECURSIVE SkipWs(_, _)
SkipWs(text, i) ==
    IF i <= Len(text) /\ text[i] \in Whitespace THEN SkipWs(text, i + 1) ELSE i

\* the JSON decoder's string scanner, from the character after the opening
\* quote: a raw newline is a control character and an error; the escapes of
\* the alphabet are \", \\ and \n
RECURSIVE ScanString(_, _, _)
ScanString(text, i, acc) ==
    IF i > Len(text) THEN Failed
    ELSE IF text[i] = QUOTE THEN Parsed(Str(acc), i + 1)
    ELSE IF text[i] = NEWLINE THEN Failed
    ELSE IF text[i] = BACKSLASH
         THEN IF i + 1 > Len(text) THEN Failed
              ELSE IF text[i + 1] \in {QUOTE, BACKSLASH}
                   THEN ScanString(text, i + 2, Append(acc, text[i + 1]))
              ELSE IF text[i + 1] = "n"
                   THEN ScanString(text, i + 2, Append(acc, NEWLINE))
              ELSE Failed
    ELSE ScanString(text, i + 1, Append(acc, text[i]))

RECURSIVE ScanNumber(_, _, _)
ScanNumber(text, i, acc) ==
    IF i <= Len(text) /\ text[i] \in Digits
    THEN ScanNumber(text, i + 1, Append(acc, text[i]))
    ELSE Parsed(Num(acc), i)

\* the JSON decoder: scan_once, JSONObject and JSONArray
RECURSIVE ScanValue(_, _)
RECURSIVE ScanMembers(_, _, _)
RECURSIVE ScanElements(_, _, _)

ScanValue(text, i) ==
    IF i > Len(text) THEN Failed
    ELSE IF text[i] = QUOTE THEN ScanString(text, i + 1, <<>>)
    ELSE IF text[i] \in Digits THEN ScanNumber(text, i, <<>>)
    ELSE IF text[i] = LBRACE
         THEN LET j == SkipWs(text, i + 1)
              IN IF j <= Len(text) /\ text[j] = RBRACE
                 THEN Parsed(Obj(<<>>), j + 1)
                 ELSE ScanMembers(text, j, <<>>)
    ELSE IF text[i] = LBRACK
         THEN LET j == SkipWs(text, i + 1)
              IN IF j <= Len(text) /\ text[j] = RBRACK
                 THEN Parsed(Arr(<<>>), j + 1)
                 ELSE ScanElements(text, j, <<>>)
    ELSE Failed

\* from the opening quote of a key: "key" : value, then , or }
ScanMembers(text, i, items) ==
    IF i > Len(text) \/ text[i] # QUOTE THEN Failed
    ELSE LET key == ScanString(text, i + 1, <<>>)
         IN IF ~key.ok THEN Failed
            ELSE LET c == SkipWs(text, key.pos)
                 IN IF c > Len(text) \/ text[c] # COLON THEN Failed
                    ELSE LET val == ScanValue(text, SkipWs(text, c + 1))
                         IN IF ~val.ok THEN Failed
                            ELSE LET e == SkipWs(text, val.pos)
                                     got == DictSet(items, key.val.v, val.val)
                                 IN IF e > Len(text) THEN Failed
                                    ELSE IF text[e] = RBRACE
                                         THEN Parsed(Obj(got), e + 1)
                                    ELSE IF text[e] = COMMA
                                         THEN ScanMembers(text, SkipWs(text, e + 1), got)
                                    ELSE Failed

ScanElements(text, i, elems) ==
    LET val == ScanValue(text, i)
    IN IF ~val.ok THEN Failed
       ELSE LET e == SkipWs(text, val.pos)
                got == Append(elems, val.val)
            IN IF e > Len(text) THEN Failed
               ELSE IF text[e] = RBRACK THEN Parsed(Arr(got), e + 1)
               ELSE IF text[e] = COMMA
                    THEN ScanElements(text, SkipWs(text, e + 1), got)
               ELSE Failed

\* json.loads(text): a value, surrounded by whitespace only; Failed stands
\* for JSONDecodeError
json_loads(text) ==
    LET val == ScanValue(text, SkipWs(text, 1))
    IN IF val.ok /\ SkipWs(text, val.pos) = Len(text) + 1 THEN val ELSE Failed

----------------------------------------------------------------------------
(* json_utils: extract_json and its repairs *)

\* text.find(c) and text.rfind(c), 0 for Python's -1
Find(text, c) ==
    IF \E i \in 1..Len(text) : text[i] = c
    THEN CHOOSE i \in 1..Len(text) :
            text[i] = c /\ \A j \in 1..(i - 1) : text[j] # c
    ELSE 0

RFind(text, c) ==
    IF \E i \in 1..Len(text) : text[i] = c
    THEN CHOOSE i \in 1..Len(text) :
            text[i] = c /\ \A j \in (i + 1)..Len(text) : text[j] # c
    ELSE 0

\* text.rstrip()
RECURSIVE RStrip(_)
RStrip(text) ==
    IF text # <<>> /\ text[Len(text)] \in Whitespace
    THEN RStrip(SubSeq(text, 1, Len(text) - 1)) ELSE text

\* text.rstrip(chars)
RECURSIVE RStripChars(_, _)
RStripChars(text, chars) ==
    IF text # <<>> /\ text[Len(text)] \in chars
    THEN RStripChars(SubSeq(text, 1, Len(text) - 1), chars) ELSE text

\* text.strip()
RECURSIVE LStrip(_)
LStrip(text) ==
    IF text # <<>> /\ Head(text) \in Whitespace THEN LStrip(Tail(text)) ELSE text

\* _fix_newlines_in_json_strings: a newline inside a quoted string becomes
\* a space; a backslash inside a string keeps the character after it
RECURSIVE fix_newlines_in_json_strings(_, _, _)
fix_newlines_in_json_strings(text, i, in_string) ==
    IF i > Len(text) THEN <<>>
    ELSE IF text[i] = BACKSLASH /\ in_string /\ i + 1 <= Len(text)
         THEN <<text[i], text[i + 1]>>
              \o fix_newlines_in_json_strings(text, i + 2, in_string)
    ELSE LET now_in == IF text[i] = QUOTE THEN ~in_string ELSE in_string
         IN <<IF text[i] = NEWLINE /\ now_in THEN SPACE ELSE text[i]>>
            \o fix_newlines_in_json_strings(text, i + 1, now_in)

\* re.sub(r'"\s*\n\s*"', '",\n"', text): two quotes with only whitespace
\* between them, a newline in it, get a comma
RECURSIVE sub_missing_commas(_, _)
sub_missing_commas(text, i) ==
    IF i > Len(text) THEN <<>>
    ELSE LET j == SkipWs(text, i + 1)
         IN IF /\ text[i] = QUOTE
               /\ j <= Len(text) /\ text[j] = QUOTE
               /\ \E m \in (i + 1)..(j - 1) : text[m] = NEWLINE
            THEN <<QUOTE, COMMA, NEWLINE, QUOTE>> \o sub_missing_commas(text, j + 1)
            ELSE <<text[i]>> \o sub_missing_commas(text, i + 1)

\* re.sub(r',\s*([}\]])', r'\1', text): a comma before a closing bracket goes
RECURSIVE sub_trailing_commas(_, _)
sub_trailing_commas(text, i) ==
    IF i > Len(text) THEN <<>>
    ELSE LET j == SkipWs(text, i + 1)
         IN IF text[i] = COMMA /\ j <= Len(text) /\ text[j] \in {RBRACE, RBRACK}
            THEN <<text[j]>> \o sub_trailing_commas(text, j + 1)
            ELSE <<text[i]>> \o sub_trailing_commas(text, i + 1)

\* the first walk of _repair_truncated_json: whether the text ends inside a
\* string; a backslash inside a string skips the character after it
RECURSIVE EndsInString(_, _, _)
EndsInString(text, i, in_string) ==
    IF i > Len(text) THEN in_string
    ELSE IF text[i] = BACKSLASH /\ in_string THEN EndsInString(text, i + 2, in_string)
    ELSE EndsInString(text, i + 1,
                      IF text[i] = QUOTE THEN ~in_string ELSE in_string)

\* the second walk: the stack of brackets still open at the end
RECURSIVE OpenBrackets(_, _, _, _)
OpenBrackets(text, i, in_str, stack) ==
    IF i > Len(text) THEN stack
    ELSE IF text[i] = BACKSLASH /\ in_str THEN OpenBrackets(text, i + 2, in_str, stack)
    ELSE IF text[i] = QUOTE THEN OpenBrackets(text, i + 1, ~in_str, stack)
    ELSE IF in_str THEN OpenBrackets(text, i + 1, in_str, stack)
    ELSE IF text[i] \in {LBRACE, LBRACK}
         THEN OpenBrackets(text, i + 1, in_str, Append(stack, text[i]))
    ELSE IF /\ stack # <<>>
            /\ \/ text[i] = RBRACE /\ stack[Len(stack)] = LBRACE
               \/ text[i] = RBRACK /\ stack[Len(stack)] = LBRACK
         THEN OpenBrackets(text, i + 1, in_str, SubSeq(stack, 1, Len(stack) - 1))
    ELSE OpenBrackets(text, i + 1, in_str, stack)

\* "Close in reverse order"
RECURSIVE Closers(_)
Closers(stack) ==
    IF stack = <<>> THEN <<>>
    ELSE <<IF stack[Len(stack)] = LBRACK THEN RBRACK ELSE RBRACE>>
         \o Closers(SubSeq(stack, 1, Len(stack) - 1))

\* _repair_truncated_json(text)
repair_truncated_json(text) ==
    LET stripped == RStrip(text)
        \* re.sub(r',\s*$', '', text)
        uncomma == IF stripped # <<>> /\ stripped[Len(stripped)] = COMMA
                   THEN SubSeq(stripped, 1, Len(stripped) - 1) ELSE stripped
        closed == IF EndsInString(uncomma, 1, FALSE)
                  THEN Append(uncomma, QUOTE) ELSE uncomma
    IN closed \o Closers(OpenBrackets(closed, 1, FALSE, <<>>))

\* where a match of r'\{[^{}]*"name"\s*:\s*"[^"]+?"[^{}]*\}' that starts at the
\* brace at i ends, 0 if there is none: no brace before "name", a non-empty
\* quoted value after the colon, no brace between that value and the closing }
NameKeyAt(text, i, p) ==
    /\ p + 2 <= Len(text)
    /\ \A m \in (i + 1)..(p - 1) : text[m] \notin {LBRACE, RBRACE}
    /\ text[p] = QUOTE /\ text[p + 1] = "name" /\ text[p + 2] = QUOTE

NextAt(text, from, chars) ==
    IF \E m \in from..Len(text) : text[m] \in chars
    THEN CHOOSE m \in from..Len(text) :
            text[m] \in chars /\ \A k \in from..(m - 1) : text[k] \notin chars
    ELSE 0

NameMatchEnd(text, i, p) ==
    LET c == SkipWs(text, p + 3)
        q == SkipWs(text, c + 1)
        r == NextAt(text, q + 1, {QUOTE})
        j == NextAt(text, r + 1, {LBRACE, RBRACE})
    IN IF /\ NameKeyAt(text, i, p)
          /\ c <= Len(text) /\ text[c] = COLON
          /\ q <= Len(text) /\ text[q] = QUOTE
          /\ r >= q + 2
          /\ j > 0 /\ text[j] = RBRACE
       THEN j ELSE 0

NameObjectEnd(text, i) ==
    LET ps == {p \in (i + 1)..Len(text) : NameMatchEnd(text, i, p) > 0}
    IN IF text[i] = LBRACE /\ ps # {}
       THEN NameMatchEnd(text, i, CHOOSE p \in ps : \A p2 \in ps : p2 <= p)
       ELSE 0

\* attempt 4: re.findall(pattern, text), each match that json.loads accepts
RECURSIVE NameObjects(_, _)
NameObjects(text, i) ==
    IF i > Len(text) THEN <<>>
    ELSE LET j == NameObjectEnd(text, i)
         IN IF j = 0 THEN NameObjects(text, i + 1)
            ELSE LET dx == json_loads(SubSeq(text, i, j))
                 IN (IF dx.ok THEN <<dx.val>> ELSE <<>>) \o NameObjects(text, j + 1)

\* how a call of a function ends
Returned(val) == [raised |-> FALSE, exc |-> "", val |-> val]
Raised(exc) == [raised |-> TRUE, exc |-> exc, val |-> NoValue]

\* extract_json(text), for a text without a code fence
extract_json(text) ==
    LET start == Find(text, LBRACE)
        end == RFind(text, RBRACE)
        cut == IF end # 0 THEN SubSeq(text, start, end)
               ELSE SubSeq(text, start, Len(text))
        fixed_newlines == fix_newlines_in_json_strings(cut, 1, FALSE)
        attempt1 == json_loads(fixed_newlines)
        attempt2 == json_loads(sub_trailing_commas(
                                   sub_missing_commas(fixed_newlines, 1), 1))
        attempt3 == json_loads(sub_trailing_commas(
                                   repair_truncated_json(fixed_newlines), 1))
        diagnoses == NameObjects(fixed_newlines, 1)
    IN IF start = 0 THEN Raised("HTTPException")
       ELSE IF attempt1.ok THEN Returned(attempt1.val)
       ELSE IF attempt2.ok THEN Returned(attempt2.val)
       ELSE IF attempt3.ok THEN Returned(attempt3.val)
       ELSE IF diagnoses # <<>>
            THEN Returned(Obj(<<Item(<<"diagnoses">>, Arr(diagnoses))>>))
       ELSE Raised("HTTPException")

----------------------------------------------------------------------------
(* gemini_orchestrator: _parse_orchestrator_response *)

\* text[:500] keeps this many characters
RawTextLimit == 500

\* the characters of a string as JSON text writes them
RECURSIVE EscapeStr(_)
EscapeStr(chars) ==
    IF chars = <<>> THEN <<>>
    ELSE (IF Head(chars) \in {QUOTE, BACKSLASH} THEN <<BACKSLASH, Head(chars)>>
          ELSE IF Head(chars) = NEWLINE THEN <<BACKSLASH, "n">>
          ELSE <<Head(chars)>>) \o EscapeStr(Tail(chars))

\* json.dumps(value): Python's separators ", " and ": "
RECURSIVE PyDumps(_)
RECURSIVE PyDumpsItems(_, _)
RECURSIVE PyDumpsElems(_, _)
PyDumps(val) ==
    IF val.t = "str" THEN <<QUOTE>> \o EscapeStr(val.v) \o <<QUOTE>>
    ELSE IF val.t = "num" THEN val.v
    ELSE IF val.t = "null" THEN <<"null">>
    ELSE IF val.t = "obj" THEN <<LBRACE>> \o PyDumpsItems(val.v, 1) \o <<RBRACE>>
    ELSE <<LBRACK>> \o PyDumpsElems(val.v, 1) \o <<RBRACK>>

PyDumpsItems(items, i) ==
    IF i > Len(items) THEN <<>>
    ELSE (IF i > 1 THEN <<COMMA, SPACE>> ELSE <<>>)
         \o <<QUOTE>> \o EscapeStr(items[i].k) \o <<QUOTE, COLON, SPACE>>
         \o PyDumps(items[i].val) \o PyDumpsItems(items, i + 1)

PyDumpsElems(elems, i) ==
    IF i > Len(elems) THEN <<>>
    ELSE (IF i > 1 THEN <<COMMA, SPACE>> ELSE <<>>) \o PyDumps(elems[i])
         \o PyDumpsElems(elems, i + 1)

\* text.replace(a + b, r): every pair a b, left to right, becomes r
RECURSIVE ReplacePair(_, _, _, _)
ReplacePair(text, a, b, r) ==
    IF text = <<>> THEN <<>>
    ELSE IF Len(text) >= 2 /\ text[1] = a /\ text[2] = b
         THEN <<r>> \o ReplacePair(SubSeq(text, 3, Len(text)), a, b, r)
    ELSE <<Head(text)>> \o ReplacePair(Tail(text), a, b, r)

\* "Unescape JSON string escapes", the three replace calls in their order
Unescape(text) ==
    ReplacePair(ReplacePair(ReplacePair(text, BACKSLASH, QUOTE, QUOTE),
                            BACKSLASH, "n", NEWLINE),
                BACKSLASH, BACKSLASH, BACKSLASH)

\* the group ((?:[^"\\]|\\.)*)(?:"|$) from position i: the characters up
\* to the first unescaped quote or the end; no match when the text ends in
\* the middle of an escape
RECURSIVE RawStringFrom(_, _, _)
RawStringFrom(text, i, acc) ==
    IF i > Len(text) \/ text[i] = QUOTE THEN [ok |-> TRUE, raw |-> acc]
    ELSE IF text[i] = BACKSLASH
         THEN IF i + 1 > Len(text) THEN [ok |-> FALSE, raw |-> <<>>]
              ELSE RawStringFrom(text, i + 2, acc \o <<text[i], text[i + 1]>>)
    ELSE RawStringFrom(text, i + 1, Append(acc, text[i]))

\* "ai_response" \s* : \s* " at position p; the position after it, 0 if none
AiResponseKeyAt(text, p) ==
    LET c == SkipWs(text, p + 3)
        q == SkipWs(text, c + 1)
    IN IF /\ p + 2 <= Len(text)
          /\ text[p] = QUOTE /\ text[p + 1] = "ai_response" /\ text[p + 2] = QUOTE
          /\ c <= Len(text) /\ text[c] = COLON
          /\ q <= Len(text) /\ text[q] = QUOTE
       THEN q + 1 ELSE 0

\* re.search(r'"ai_response"\s*:\s*"((?:[^"\\]|\\.)*)(?:"|$)', text, re.DOTALL)
AiResponseSearch(text) ==
    LET hits == {p \in 1..Len(text) :
                    /\ AiResponseKeyAt(text, p) > 0
                    /\ RawStringFrom(text, AiResponseKeyAt(text, p), <<>>).ok}
    IN IF hits = {} THEN [ok |-> FALSE, raw |-> <<>>]
       ELSE LET p == CHOOSE h \in hits : \A h2 \in hits : h <= h2
            IN RawStringFrom(text, AiResponseKeyAt(text, p), <<>>)

\* the prefix ^\s*\{\s*"ai_response"\s*:\s*"? of a text: the position after
\* it, 0 if the text does not start with it
AiResponsePrefixEnd(text) ==
    LET b == SkipWs(text, 1)
        k == SkipWs(text, b + 1)
        c == SkipWs(text, k + 3)
        q == SkipWs(text, c + 1)
    IN IF /\ b <= Len(text) /\ text[b] = LBRACE
          /\ k + 2 <= Len(text)
          /\ text[k] = QUOTE /\ text[k + 1] = "ai_response" /\ text[k + 2] = QUOTE
          /\ c <= Len(text) /\ text[c] = COLON
       THEN IF q <= Len(text) /\ text[q] = QUOTE THEN q + 1 ELSE q
       ELSE 0

TrailingKeys == {"updated_differential", "suggested_test", "medgemma_query"}

\* re.sub(r'"\s*,?\s*"(updated_differential|suggested_test|medgemma_query).*$',
\* '', text): from the quote that closes the text before such a key, when the
\* key is on the last line
TrailingKeyAt(text, p) ==
    LET a == SkipWs(text, p + 1)
        b == IF a <= Len(text) /\ text[a] = COMMA THEN SkipWs(text, a + 1) ELSE a
    IN /\ text[p] = QUOTE
       /\ b + 1 <= Len(text)
       /\ text[b] = QUOTE /\ text[b + 1] \in TrailingKeys
       /\ \A m \in (b + 2)..(Len(text) - 1) : text[m] # NEWLINE

StripTrailingKeys(text) ==
    LET hits == {p \in 1..Len(text) : TrailingKeyAt(text, p)}
    IN IF hits = {} THEN text
       ELSE LET p == CHOOSE h \in hits : \A h2 \in hits : h <= h2
                rest == IF text[Len(text)] = NEWLINE THEN <<NEWLINE>> ELSE <<>>
            IN SubSeq(text, 1, p - 1) \o rest

\* data.update(inner)
RECURSIVE DictUpdate(_, _)
DictUpdate(items, inner) ==
    IF inner = <<>> THEN items
    ELSE DictUpdate(DictSet(items, Head(inner).k, Head(inner).val), Tail(inner))

Take(text, n) == SubSeq(text, 1, IF Len(text) < n THEN Len(text) ELSE n)

AI_RESPONSE == <<"ai_response">>

\* the record built when nothing parses
MinimalRecord(ai_response) ==
    <<Item(AI_RESPONSE, Str(ai_response)),
      Item(<<"updated_differential">>, Arr(<<>>)),
      Item(<<"suggested_test">>, Null)>>

\* the try block: json.loads, the missing-comma repair, the regex extraction
\* of ai_response, the raw text
ParseOrRecover(text) ==
    LET direct == json_loads(text)
        fixed == json_loads(sub_missing_commas(text, 1))
        ai_match == AiResponseSearch(text)
    IN IF direct.ok THEN direct.val
       ELSE IF fixed.ok THEN fixed.val
       ELSE IF ai_match.ok THEN Obj(MinimalRecord(Unescape(ai_match.raw)))
       ELSE Obj(MinimalRecord(
                IF text # <<>> THEN Take(text, RawTextLimit)
                ELSE <<"I need to reconsider this case.">>))

\* "Fix double-wrapped JSON": merge the inner object over the outer one, or
\* strip what is left of a partial one
UnwrapDoubleWrapped(items) ==
    LET ai_response == DictGet(items, AI_RESPONSE, Str(<<>>))
    IN IF /\ ai_response.t = "str"
          /\ LStrip(ai_response.v) # <<>> /\ Head(LStrip(ai_response.v)) = LBRACE
       THEN LET inner == json_loads(ai_response.v)
                pre == AiResponsePrefixEnd(ai_response.v)
                unprefixed == IF pre = 0 THEN ai_response.v
                              ELSE SubSeq(ai_response.v, pre, Len(ai_response.v))
                stripped == RStripChars(StripTrailingKeys(unprefixed),
                                        {QUOTE, RBRACE, LBRACE, SPACE, NEWLINE})
            IN IF inner.ok
               THEN IF inner.val.t = "obj" /\ HasKey(inner.val.v, AI_RESPONSE)
                    THEN DictUpdate(items, inner.val.v) ELSE items
               ELSE IF stripped # <<>>
                    THEN DictSet(items, AI_RESPONSE, Str(stripped)) ELSE items
       ELSE items

\* "Ensure ai_response is always a plain string, not a dict"
FlattenDict(items) ==
    LET ai_response == DictGet(items, AI_RESPONSE, Null)
    IN IF ai_response.t = "obj"
       THEN DictSet(items, AI_RESPONSE,
                    DictGet(ai_response.v, AI_RESPONSE, Str(PyDumps(ai_response))))
       ELSE items

\* "Final cleanup: strip any remaining JSON key prefix from ai_response"
FinalCleanup(items) ==
    LET final == DictGet(items, AI_RESPONSE, Str(<<>>))
        pre == AiResponsePrefixEnd(final.v)
    IN IF final.t = "str" /\ pre > 0
       THEN DictSet(items, AI_RESPONSE,
                    Str(RStripChars(SubSeq(final.v, pre, Len(final.v)),
                                    {QUOTE, RBRACE})))
       ELSE items

\* _parse_orchestrator_response(text), for a text without a code fence;
\* data.get on a value that is no dict raises AttributeError
parse_orchestrator_response(text) ==
    LET start == Find(text, LBRACE)
        end == RFind(text, RBRACE)
        cut == IF start # 0 /\ end # 0 THEN SubSeq(text, start, end) ELSE text
        data == ParseOrRecover(cut)
    IN IF data.t # "obj" THEN Raised("AttributeError")
       ELSE Returned(Obj(FinalCleanup(FlattenDict(UnwrapDoubleWrapped(data.v)))))

----------------------------------------------------------------------------
(* hallucination_check: check_hallucination *)

\* the lab test names of the model, in the order of COMMON_LAB_TESTS
COMMON_LAB_TESTS ==
    <<<<"h", "e", "m", "o", "g", "l", "o", "b", "i", "n">>, <<"h", "b">>, <<"w", "b", "c">>, <<"l", "e", "u", "k", "o", "c", "y", "t", "e">>, <<"f", "e", "r", "r", "i", "t", "i", "n">>>>

\* the unit suffixes of the model, in the order of NUMERIC_PATTERN
UnitSuffixes == <<<<"g", "/", "d", "l">>, <<"n", "g", "/", "m", "l">>, <<"x", "1", "0", "^", "9", "/", "l">>>>

DecimalDigits == <<"0", "1", "2", "3", "4", "5", "6", "7", "8", "9">>
IsDigit(c) == \E n \in 1..10 : DecimalDigits[n] = c
DigitVal(c) == (CHOOSE n \in 1..10 : DecimalDigits[n] = c) - 1

\* the characters that are no word characters (\W)
NonWord == {SPACE, "/", "^", "."}
IsWordChar(c) == c \notin NonWord

\* str.lower(), for the capitals the texts use
LowerChar(c) == IF c = "L" THEN "l" ELSE IF c = "H" THEN "h" ELSE c
Lower(text) == [i \in 1..Len(text) |-> LowerChar(text[i])]

\* whether pat stands in text at position p
StandsAt(text, p, pat) ==
    p + Len(pat) - 1 <= Len(text) /\ SubSeq(text, p, p + Len(pat) - 1) = pat

\* \b before position p
WordBoundary(text, p) ==
    (p > 1 /\ IsWordChar(text[p - 1])) # (p <= Len(text) /\ IsWordChar(text[p]))

\* the position after the digits that start at p
RECURSIVE DigitsEnd(_, _)
DigitsEnd(text, p) ==
    IF p <= Len(text) /\ IsDigit(text[p]) THEN DigitsEnd(text, p + 1) ELSE p

RECURSIVE SpacesEnd(_, _)
SpacesEnd(text, p) ==
    IF p <= Len(text) /\ text[p] = SPACE THEN SpacesEnd(text, p + 1) ELSE p

\* the ways NUMERIC_PATTERN matches at p: the number is text[p..n-1], the
\* unit text[u..e-1]
NumericMatchesAt(text, p) ==
    LET ints == (p + 1)..DigitsEnd(text, p)
        decimals == UNION {(a + 2)..DigitsEnd(text, a + 1) :
                              a \in {b \in ints : b <= Len(text) /\ text[b] = "."}}
        ways == {w \in (ints \cup decimals) \X (1..Len(UnitSuffixes)) :
                    /\ StandsAt(Lower(text), SpacesEnd(text, w[1]), UnitSuffixes[w[2]])
                    /\ WordBoundary(text, SpacesEnd(text, w[1])
                                              + Len(UnitSuffixes[w[2]]))}
    IN IF WordBoundary(text, p)
       THEN {[start |-> p, n |-> w[1], u |-> SpacesEnd(text, w[1]),
              e |-> SpacesEnd(text, w[1]) + Len(UnitSuffixes[w[2]])] : w \in ways}
       ELSE {}

\* the match the regex engine takes: the longest number
NumericMatchAt(text, p) ==
    CHOOSE m \in NumericMatchesAt(text, p) :
        \A m2 \in NumericMatchesAt(text, p) : m2.n <= m.n

\* NUMERIC_PATTERN.finditer(text), from position p on
RECURSIVE FindIter(_, _)
FindIter(text, p) ==
    IF p > Len(text) THEN <<>>
    ELSE IF NumericMatchesAt(text, p) # {}
    THEN <<NumericMatchAt(text, p)>> \o FindIter(text, NumericMatchAt(text, p).e)
    ELSE FindIter(text, p + 1)

\* one unit of value is 1/Scale
Scale == 10000
\* abs(allowed_value - extracted["value"]) < 1e-3
Tolerance == 10

RECURSIVE IntVal(_)
IntVal(digits) ==
    IF digits = <<>> THEN 0
    ELSE 10 * IntVal(SubSeq(digits, 1, Len(digits) - 1)) + DigitVal(digits[Len(digits)])

RECURSIVE Pow10(_)
Pow10(k) == IF k <= 0 THEN 1 ELSE 10 * Pow10(k - 1)

\* float(number), for at most four decimals
ParseFloat(number) ==
    LET dot == Find(number, ".")
    IN IF dot = 0 THEN IntVal(number) * Scale
       ELSE IntVal(SubSeq(number, 1, dot - 1)) * Scale
            + IntVal(SubSeq(number, dot + 1, Len(number)))
              * Pow10(4 - (Len(number) - dot))

\* str.replace(old, ""), old not empty
RECURSIVE Remove(_, _)
Remove(text, old) ==
    IF Len(text) < Len(old) THEN text
    ELSE IF StandsAt(text, 1, old)
    THEN Remove(SubSeq(text, Len(old) + 1, Len(text)), old)
    ELSE <<Head(text)>> \o Remove(Tail(text), old)

\* normalize_unit(unit)
normalize_unit(unit) == SelectSeq(Lower(unit), LAMBDA c : c # SPACE)

\* normalize_lab_name(name)
normalize_lab_name(name) ==
    IF Lower(LStrip(RStrip(name))) = <<"h", "b">> THEN <<"h", "e", "m", "o", "g", "l", "o", "b", "i", "n">>
    ELSE Lower(LStrip(RStrip(name)))

\* extract_numeric_values(text): value, unit, full_match and position of
\* every match; the unit is the match with the number's text taken out
extract_numeric_values(text) ==
    LET matches == FindIter(text, 1)
    IN [i \in 1..Len(matches) |->
          LET m == matches[i]
              number == SubSeq(text, m.start, m.n - 1)
              full_match == SubSeq(text, m.start, m.e - 1)
          IN [value |-> ParseFloat(number),
              unit |-> LStrip(RStrip(Remove(full_match, number))),
              full_match |-> full_match,
              position |-> m.start,
              written_unit |-> SubSeq(text, m.u, m.e - 1)]]

\* the places where a lab test name stands in the text as a word
LabHits(text) ==
    {h \in [lab : 1..Len(COMMON_LAB_TESTS), pos : 1..Len(text)] :
        /\ StandsAt(Lower(text), h.pos, COMMON_LAB_TESTS[h.lab])
        /\ WordBoundary(text, h.pos)
        /\ WordBoundary(text, h.pos + Len(COMMON_LAB_TESTS[h.lab]))}

Abs(x) == IF x < 0 THEN 0 - x ELSE x

\* find_closest_lab(text, value_position): the name whose start is nearest,
\* the earlier name of COMMON_LAB_TESTS on a tie; <<>> for None
find_closest_lab(text, value_position) ==
    LET hits == LabHits(text)
        Dist(h) == Abs(h.pos - value_position)
        nearest == {h \in hits : \A g \in hits : Dist(h) <= Dist(g)}
    IN IF hits = {} THEN <<>>
       ELSE normalize_lab_name(
                COMMON_LAB_TESTS[(CHOOSE h \in nearest :
                                     \A g \in nearest : h.lab <= g.lab).lab])

\* the (value, unit) pairs of the provided lab values and of the history
AllowedValues(provided_lab_values, provided_patient_history) ==
    LET items == extract_numeric_values(provided_patient_history)
    IN {<<provided_lab_values[i].value, normalize_unit(provided_lab_values[i].unit)>> :
           i \in {j \in 1..Len(provided_lab_values) :
                     provided_lab_values[j].unit # <<>>}}
       \cup {<<items[i].value, normalize_unit(items[i].unit)>> : i \in 1..Len(items)}

ProvidedLabsNormalized(provided_lab_values) ==
    {normalize_lab_name(provided_lab_values[i].name) :
        i \in 1..Len(provided_lab_values)}

\* check_hallucination(generated_text, provided_lab_values,
\* provided_patient_history): the hallucinated_values, each with the
\* full_match of its warning
check_hallucination(generated_text, provided_lab_values, provided_patient_history) ==
    LET extracted_values == extract_numeric_values(generated_text)
        allowed_values == AllowedValues(provided_lab_values, provided_patient_history)
        Flagged(extracted) ==
            /\ ~\E allowed \in allowed_values :
                  /\ Abs(allowed[1] - extracted.value) < Tolerance
                  /\ allowed[2] = normalize_unit(extracted.unit)
            /\ find_closest_lab(generated_text, extracted.position) # <<>>
            /\ find_closest_lab(generated_text, extracted.position)
                   \notin ProvidedLabsNormalized(provided_lab_values)
        flagged == SelectSeq(extracted_values, Flagged)
    IN [i \in 1..Len(flagged) |->
          [test |-> find_closest_lab(generated_text, flagged[i].position),
           value |-> flagged[i].value,
           unit |-> flagged[i].unit,
           full_match |-> flagged[i].full_match]]

\* the generated texts: the two mentions of the specification's example; an
\* alias and a value a hair off; a count whose digit recurs in its unit; a
\* value with no test name; a value nearer to the next name; a value that
\* was not provided
GeneratedTexts ==
    {<<"l", "o", "w", " ", "h", "e", "m", "o", "g", "l", "o", "b", "i", "n", " ", "a", "t", " ", "8", ".", "2", " ", "g", "/", "d", "L", " ", "a", "n", "d", " ", "f", "e", "r", "r", "i", "t", "i", "n", " ", "a", "t", " ", "1", "2", " ", "n", "g", "/", "m", "L">>,
     <<"h", "b", " ", "8", ".", "2", "0", "0", "4", " ", "g", "/", "d", "L">>,
     <<"l", "e", "u", "k", "o", "c", "y", "t", "e", " ", "9", " ", "x", "1", "0", "^", "9", "/", "L">>,
     <<"v", "a", "l", "u", "e", " ", "1", "2", " ", "n", "g", "/", "m", "L">>,
     <<"f", "e", "r", "r", "i", "t", "i", "n", " ", "1", "2", "n", "g", "/", "m", "L", " ", "h", "e", "m", "o", "g", "l", "o", "b", "i", "n">>,
     <<"f", "e", "r", "r", "i", "t", "i", "n", " ", "8", ".", "3", " ", "g", "/", "d", "L">>}

\* a provided lab value: its name, value and unit
Lab(name, value, unit) == [name |-> name, value |-> value, unit |-> unit]

ProvidedLabValues ==
    {<<>>,
     <<Lab(<<"H", "e", "m", "o", "g", "l", "o", "b", "i", "n">>, 82000, <<"g", "/", "d", "L">>)>>,
     <<Lab(<<"w", "b", "c">>, 90000, <<"x", "1", "0", "^", "9", "/", "L">>)>>,
     <<Lab(<<"f", "e", "r", "r", "i", "t", "i", "n">>, 150000, <<"n", "g", "/", "m", "L">>)>>,
     <<Lab(<<"H", "e", "m", "o", "g", "l", "o", "b", "i", "n">>, 82000, <<"g", "/", "d", "L">>), Lab(<<"w", "b", "c">>, 90000, <<"x", "1", "0", "^", "9", "/", "L">>)>>}

\* the patient histories; <<>> for none
PatientHistories ==
    {<<>>, <<"f", "e", "r", "r", "i", "t", "i", "n", " ", "w", "a", "s", " ", "1", "2", " ", "n", "g", "/", "m", "L">>, <<"w", "b", "c", " ", "9", " ", "x", "1", "0", "^", "9", "/", "L">>}

HallucinationInputs ==
    [generated_text : GeneratedTexts, provided_lab_values : ProvidedLabValues,
     provided_patient_history : PatientHistories]

\* check_hallucination is called and returns
check_hallucination_call ==
    /\ libcall.fn = "check_hallucination" /\ libcall.pc = "called"
    /\ libcall' = [libcall EXCEPT
                       !.pc = "returned",
                       !.outcome =
                           Returned(check_hallucination(
                               libcall.arg.generated_text,
                               libcall.arg.provided_lab_values,
                               libcall.arg.provided_patient_history))]
    /\ UNCHANGED <<service, limiter, modal_app>>

----------------------------------------------------------------------------
(* gemini_orchestrator: extract_citations *)

LowerLetters == <<"a", "b", "c", "d", "e", "f", "g", "h", "i", "j", "k", "l", "m", "n", "o", "p", "q", "r", "s", "t", "u", "v", "w", "x", "y", "z">>
UpperLetters == <<"A", "B", "C", "D", "E", "F", "G", "H", "I", "J", "K", "L", "M", "N", "O", "P", "Q", "R", "S", "T", "U", "V", "W", "X", "Y", "Z">>

\* str.upper(); with re.IGNORECASE a pattern is matched on the upper-case text
UpperChar(c) ==
    IF \E n \in 1..26 : LowerLetters[n] = c
    THEN UpperLetters[CHOOSE n \in 1..26 : LowerLetters[n] = c]
    ELSE c
Upper(text) == [i \in 1..Len(text) |-> UpperChar(text[i])]

\* the characters of \w in an upper-case text
RegexWord ==
    {UpperLetters[n] : n \in 1..26} \cup {DecimalDigits[n] : n \in 1..10} \cup {"_"}

\* \b before position p
Boundary(text, p) ==
    (p > 1 /\ text[p - 1] \in RegexWord) # (p <= Len(text) /\ text[p] \in RegexWord)

\* the keys of GUIDELINE_URLS
GuidelineKeys ==
    {"WHO_MENINGITIS", "WHO_TB", "WHO_HEPATITIS_B", "WHO", "CDC_SEPSIS", "CDC_LEGIONELLA",
     "CDC_RESPIRATORY", "CDC", "USPSTF_BREAST", "USPSTF_COLORECTAL", "USPSTF_DIABETES", "USPSTF_CARDIO",
     "USPSTF", "PMC", "PubMed", "IDSA", "ATS", "ATS/IDSA",
     "BTS", "SCCM", "ESICM", "SSC", "NCCN", "ASCO",
     "ESMO", "AAD_MELANOMA", "AAD", "AADA", "ACR", "ADA",
     "ADAD", "AHA", "ACC", "ACC/AHA", "CHEST", "NICE"}

\* GUIDELINE_URLS.get(key, ""): a URL is written as the key it is stored under
GUIDELINE_URLS(key) == IF key \in GuidelineKeys THEN key ELSE ""

COMBO_ORGS ==
    <<<<"A", "T", "S", "/", "I", "D", "S", "A">>,
      <<"A", "C", "C", "/", "A", "H", "A">>,
      <<"S", "u", "r", "v", "i", "v", "i", "n", "g", " ", "S", "e", "p", "s", "i", "s", " ", "C", "a", "m", "p", "a", "i", "g", "n">>>>

ORGS ==
    <<<<"W", "H", "O", "_", "M", "E", "N", "I", "N", "G", "I", "T", "I", "S">>,
      <<"W", "H", "O", "_", "H", "E", "P", "A", "T", "I", "T", "I", "S", "_", "B">>,
      <<"W", "H", "O", "_", "T", "B">>,
      <<"C", "D", "C", "_", "L", "E", "G", "I", "O", "N", "E", "L", "L", "A">>,
      <<"C", "D", "C", "_", "R", "E", "S", "P", "I", "R", "A", "T", "O", "R", "Y">>,
      <<"C", "D", "C", "_", "S", "E", "P", "S", "I", "S">>,
      <<"U", "S", "P", "S", "T", "F", "_", "C", "O", "L", "O", "R", "E", "C", "T", "A", "L">>,
      <<"U", "S", "P", "S", "T", "F", "_", "D", "I", "A", "B", "E", "T", "E", "S">>,
      <<"U", "S", "P", "S", "T", "F", "_", "C", "A", "R", "D", "I", "O">>,
      <<"U", "S", "P", "S", "T", "F", "_", "B", "R", "E", "A", "S", "T">>,
      <<"A", "A", "D", "_", "M", "E", "L", "A", "N", "O", "M", "A">>,
      <<"U", "S", "P", "S", "T", "F">>,
      <<"S", "C", "C", "M">>,
      <<"E", "S", "I", "C", "M">>,
      <<"C", "H", "E", "S", "T">>,
      <<"N", "C", "C", "N">>,
      <<"A", "S", "C", "O">>,
      <<"E", "S", "M", "O">>,
      <<"A", "A", "D">>,
      <<"A", "C", "R">>,
      <<"A", "D", "A">>,
      <<"A", "H", "A">>,
      <<"A", "C", "C">>,
      <<"I", "D", "S", "A">>,
      <<"C", "D", "C">>,
      <<"A", "T", "S">>,
      <<"W", "H", "O">>,
      <<"N", "I", "C", "E">>,
      <<"B", "T", "S">>,
      <<"P", "M", "C">>,
      <<"P", "u", "b", "M", "e", "d">>,
      <<"S", "S", "C">>>>

\* the alternation ({COMBO_ORGS}|{ORGS}), in upper case
OrgNames == [n \in 1..(Len(COMBO_ORGS) + Len(ORGS)) |-> Upper((COMBO_ORGS \o ORGS)[n])]

\* ORG_ALIASES, in the order of the dict
ORG_ALIASES ==
    <<[alias |-> <<"W", "O", "R", "L", "D", " ", "H", "E", "A", "L", "T", "H", " ", "O", "R", "G", "A", "N", "I", "Z", "A", "T", "I", "O", "N", " ", "M", "E", "N", "I", "N", "G", "I", "T", "I", "S">>, canonical |-> "WHO_MENINGITIS"],
      [alias |-> <<"W", "H", "O", " ", "M", "E", "N", "I", "N", "G", "I", "T", "I", "S">>, canonical |-> "WHO_MENINGITIS"],
      [alias |-> <<"W", "O", "R", "L", "D", " ", "H", "E", "A", "L", "T", "H", " ", "O", "R", "G", "A", "N", "I", "Z", "A", "T", "I", "O", "N", " ", "T", "B">>, canonical |-> "WHO_TB"],
      [alias |-> <<"W", "O", "R", "L", "D", " ", "H", "E", "A", "L", "T", "H", " ", "O", "R", "G", "A", "N", "I", "Z", "A", "T", "I", "O", "N", " ", "T", "U", "B", "E", "R", "C", "U", "L", "O", "S", "I", "S">>, canonical |-> "WHO_TB"],
      [alias |-> <<"W", "H", "O", " ", "T", "B">>, canonical |-> "WHO_TB"],
      [alias |-> <<"W", "O", "R", "L", "D", " ", "H", "E", "A", "L", "T", "H", " ", "O", "R", "G", "A", "N", "I", "Z", "A", "T", "I", "O", "N", " ", "H", "E", "P", "A", "T", "I", "T", "I", "S", " ", "B">>, canonical |-> "WHO_HEPATITIS_B"],
      [alias |-> <<"W", "H", "O", " ", "H", "E", "P", "A", "T", "I", "T", "I", "S", " ", "B">>, canonical |-> "WHO_HEPATITIS_B"],
      [alias |-> <<"C", "D", "C", " ", "S", "E", "P", "S", "I", "S">>, canonical |-> "CDC_SEPSIS"],
      [alias |-> <<"C", "D", "C", " ", "H", "O", "S", "P", "I", "T", "A", "L", " ", "S", "E", "P", "S", "I", "S">>, canonical |-> "CDC_SEPSIS"],
      [alias |-> <<"C", "D", "C", " ", "L", "E", "G", "I", "O", "N", "E", "L", "L", "A">>, canonical |-> "CDC_LEGIONELLA"],
      [alias |-> <<"C", "D", "C", " ", "R", "E", "S", "P", "I", "R", "A", "T", "O", "R", "Y">>, canonical |-> "CDC_RESPIRATORY"],
      [alias |-> <<"C", "D", "C", " ", "R", "E", "S", "P", "I", "R", "A", "T", "O", "R", "Y", " ", "V", "I", "R", "U", "S">>, canonical |-> "CDC_RESPIRATORY"],
      [alias |-> <<"U", "S", " ", "P", "R", "E", "V", "E", "N", "T", "I", "V", "E", " ", "S", "E", "R", "V", "I", "C", "E", "S", " ", "T", "A", "S", "K", " ", "F", "O", "R", "C", "E", " ", "B", "R", "E", "A", "S", "T">>, canonical |-> "USPSTF_BREAST"],
      [alias |-> <<"U", "S", "P", "S", "T", "F", " ", "B", "R", "E", "A", "S", "T">>, canonical |-> "USPSTF_BREAST"],
      [alias |-> <<"U", "S", "P", "S", "T", "F", " ", "C", "O", "L", "O", "R", "E", "C", "T", "A", "L">>, canonical |-> "USPSTF_COLORECTAL"],
      [alias |-> <<"U", "S", "P", "S", "T", "F", " ", "D", "I", "A", "B", "E", "T", "E", "S">>, canonical |-> "USPSTF_DIABETES"],
      [alias |-> <<"U", "S", "P", "S", "T", "F", " ", "S", "T", "A", "T", "I", "N">>, canonical |-> "USPSTF_CARDIO"],
      [alias |-> <<"U", "S", "P", "S", "T", "F", " ", "C", "A", "R", "D", "I", "O", "V", "A", "S", "C", "U", "L", "A", "R">>, canonical |-> "USPSTF_CARDIO"],
      [alias |-> <<"A", "A", "D", " ", "M", "E", "L", "A", "N", "O", "M", "A">>, canonical |-> "AAD_MELANOMA"],
      [alias |-> <<"A", "A", "D", " ", "M", "E", "L", "A", "N", "O", "M", "A", " ", "G", "U", "I", "D", "E", "L", "I", "N", "E", "S">>, canonical |-> "AAD_MELANOMA"],
      [alias |-> <<"A", "M", "E", "R", "I", "C", "A", "N", " ", "A", "C", "A", "D", "E", "M", "Y", " ", "O", "F", " ", "D", "E", "R", "M", "A", "T", "O", "L", "O", "G", "Y", " ", "M", "E", "L", "A", "N", "O", "M", "A">>, canonical |-> "AAD_MELANOMA"],
      [alias |-> <<"P", "R", "I", "M", "A", "R", "Y", " ", "C", "A", "R", "E", " ", "C", "L", "I", "N", "I", "C", "S">>, canonical |-> "PMC"],
      [alias |-> <<"P", "U", "B", "M", "E", "D", " ", "C", "E", "N", "T", "R", "A", "L">>, canonical |-> "PMC"],
      [alias |-> <<"B", "R", "I", "T", "I", "S", "H", " ", "T", "H", "O", "R", "A", "C", "I", "C", " ", "S", "O", "C", "I", "E", "T", "Y">>, canonical |-> "BTS"],
      [alias |-> <<"I", "N", "F", "E", "C", "T", "I", "O", "U", "S", " ", "D", "I", "S", "E", "A", "S", "E", "S", " ", "S", "O", "C", "I", "E", "T", "Y", " ", "O", "F", " ", "A", "M", "E", "R", "I", "C", "A">>, canonical |-> "IDSA"],
      [alias |-> <<"A", "M", "E", "R", "I", "C", "A", "N", " ", "T", "H", "O", "R", "A", "C", "I", "C", " ", "S", "O", "C", "I", "E", "T", "Y">>, canonical |-> "ATS"],
      [alias |-> <<"C", "E", "N", "T", "E", "R", "S", " ", "F", "O", "R", " ", "D", "I", "S", "E", "A", "S", "E", " ", "C", "O", "N", "T", "R", "O", "L">>, canonical |-> "CDC"],
      [alias |-> <<"C", "E", "N", "T", "E", "R", " ", "F", "O", "R", " ", "D", "I", "S", "E", "A", "S", "E", " ", "C", "O", "N", "T", "R", "O", "L">>, canonical |-> "CDC"],
      [alias |-> <<"S", "U", "R", "V", "I", "V", "I", "N", "G", " ", "S", "E", "P", "S", "I", "S", " ", "C", "A", "M", "P", "A", "I", "G", "N">>, canonical |-> "SSC"],
      [alias |-> <<"S", "O", "C", "I", "E", "T", "Y", " ", "O", "F", " ", "C", "R", "I", "T", "I", "C", "A", "L", " ", "C", "A", "R", "E", " ", "M", "E", "D", "I", "C", "I", "N", "E">>, canonical |-> "SCCM"],
      [alias |-> <<"E", "U", "R", "O", "P", "E", "A", "N", " ", "S", "O", "C", "I", "E", "T", "Y", " ", "O", "F", " ", "I", "N", "T", "E", "N", "S", "I", "V", "E", " ", "C", "A", "R", "E", " ", "M", "E", "D", "I", "C", "I", "N", "E">>, canonical |-> "ESICM"],
      [alias |-> <<"U", "S", " ", "P", "R", "E", "V", "E", "N", "T", "I", "V", "E", " ", "S", "E", "R", "V", "I", "C", "E", "S", " ", "T", "A", "S", "K", " ", "F", "O", "R", "C", "E">>, canonical |-> "USPSTF"],
      [alias |-> <<"U", " ", "S", " ", "P", "R", "E", "V", "E", "N", "T", "I", "V", "E", " ", "S", "E", "R", "V", "I", "C", "E", "S", " ", "T", "A", "S", "K", " ", "F", "O", "R", "C", "E">>, canonical |-> "USPSTF"],
      [alias |-> <<"P", "R", "E", "V", "E", "N", "T", "I", "V", "E", " ", "S", "E", "R", "V", "I", "C", "E", "S", " ", "T", "A", "S", "K", " ", "F", "O", "R", "C", "E">>, canonical |-> "USPSTF"],
      [alias |-> <<"W", "O", "R", "L", "D", " ", "H", "E", "A", "L", "T", "H", " ", "O", "R", "G", "A", "N", "I", "Z", "A", "T", "I", "O", "N">>, canonical |-> "WHO"]>>

alias_names == [n \in 1..Len(ORG_ALIASES) |-> ORG_ALIASES[n].alias]

\* (?:According to|Per|Based on|Following)
AttributionPhrases ==
    <<<<"A", "C", "C", "O", "R", "D", "I", "N", "G", " ", "T", "O">>, <<"P", "E", "R">>, <<"B", "A", "S", "E", "D", " ", "O", "N">>, <<"F", "O", "L", "L", "O", "W", "I", "N", "G">>>>

\* the keyword alternations of citation_pattern1 and attribution_pattern: an
\* optional first word and \s+, a word, an optional plural s
CitationKeywords ==
    <<[first |-> <<>>, word |-> <<"G", "U", "I", "D", "E", "L", "I", "N", "E">>, plural |-> TRUE],
      [first |-> <<"C", "O", "N", "S", "E", "N", "S", "U", "S">>, word |-> <<"G", "U", "I", "D", "E", "L", "I", "N", "E", "S">>, plural |-> FALSE],
      [first |-> <<>>, word |-> <<"S", "T", "A", "N", "D", "A", "R", "D">>, plural |-> TRUE],
      [first |-> <<"A", "P", "P", "R", "O", "P", "R", "I", "A", "T", "E", "N", "E", "S", "S">>, word |-> <<"C", "R", "I", "T", "E", "R", "I", "A">>, plural |-> FALSE],
      [first |-> <<>>, word |-> <<"R", "E", "C", "O", "M", "M", "E", "N", "D", "A", "T", "I", "O", "N">>, plural |-> TRUE],
      [first |-> <<>>, word |-> <<"G", "U", "I", "D", "A", "N", "C", "E">>, plural |-> FALSE],
      [first |-> <<>>, word |-> <<"C", "R", "I", "T", "E", "R", "I", "A">>, plural |-> FALSE],
      [first |-> <<>>, word |-> <<"S", "T", "A", "T", "E", "M", "E", "N", "T">>, plural |-> TRUE]>>

AttributionKeywords ==
    <<[first |-> <<>>, word |-> <<"G", "U", "I", "D", "E", "L", "I", "N", "E">>, plural |-> TRUE],
      [first |-> <<>>, word |-> <<"S", "T", "A", "N", "D", "A", "R", "D">>, plural |-> TRUE],
      [first |-> <<>>, word |-> <<"R", "E", "C", "O", "M", "M", "E", "N", "D", "A", "T", "I", "O", "N">>, plural |-> TRUE],
      [first |-> <<>>, word |-> <<"G", "U", "I", "D", "A", "N", "C", "E">>, plural |-> FALSE],
      [first |-> <<>>, word |-> <<"C", "R", "I", "T", "E", "R", "I", "A">>, plural |-> FALSE]>>

\* the position after the whitespace that starts at p
RECURSIVE WsEnd(_, _)
WsEnd(text, p) ==
    IF p <= Len(text) /\ text[p] \in Whitespace THEN WsEnd(text, p + 1) ELSE p

\* the position after the run of [/,\s] that starts at p
RECURSIVE SepEnd(_, _)
SepEnd(text, p) ==
    IF p <= Len(text) /\ text[p] \in Whitespace \cup {"/", COMMA}
    THEN SepEnd(text, p + 1) ELSE p

\* the first of a sequence of positions that is one (0 is none)
FirstHit(ends) ==
    LET hits == SelectSeq(ends, LAMBDA e : e # 0)
    IN IF hits = <<>> THEN 0 ELSE hits[1]

\* the least element of a set of positions
Least(S) == CHOOSE x \in S : \A y \in S : x <= y

\* the positions after the alternatives that stand at p, in the alternation's order
EndsAt(text, p, alts) ==
    SelectSeq([n \in 1..Len(alts) |->
                   IF StandsAt(text, p, alts[n]) THEN p + Len(alts[n]) ELSE 0],
              LAMBDA e : e # 0)

\* (?:the\s+)? before a name at p: where the name may start, in the order tried
NameStarts(text, p) ==
    IF StandsAt(text, p, <<"T", "H", "E">>) /\ WsEnd(text, p + 3) > p + 3
    THEN <<WsEnd(text, p + 3), p>>
    ELSE <<p>>

\* the positions after keyword kw matched at q, in the order tried
KeywordEnds(text, q, kw) ==
    LET w == IF kw.first = <<>> THEN q
             ELSE IF StandsAt(text, q, kw.first)
                     /\ WsEnd(text, q + Len(kw.first)) > q + Len(kw.first)
                  THEN WsEnd(text, q + Len(kw.first))
                  ELSE 0
        e == IF w # 0 /\ StandsAt(text, w, kw.word) THEN w + Len(kw.word) ELSE 0
    IN IF e = 0 THEN <<>>
       ELSE IF kw.plural /\ StandsAt(text, e, <<"S">>) THEN <<e + 1, e>>
       ELSE <<e>>

RECURSIVE KeywordsEnds(_, _, _)
KeywordsEnds(text, q, kws) ==
    IF kws = <<>> THEN <<>>
    ELSE KeywordEnds(text, q, Head(kws)) \o KeywordsEnds(text, q, Tail(kws))

\* text[a..b-1] has no character of stop
Clear(text, a, b, stop) == \A k \in a..(b - 1) : text[k] \notin stop

\* \d{4} at r
FourDigits(text, r) ==
    r + 3 <= Len(text) /\ \A k \in r..(r + 3) : IsDigit(text[k])

\* [^stop]{0,max}?\d{4} from e: the position after the match, 0 for none
DigitsAfter(text, e, stop, max) ==
    LET rs == {r \in e..Min(e + max, Len(text)) :
                   FourDigits(text, r) /\ Clear(text, e, r, stop)}
    IN IF rs = {} THEN 0 ELSE Least(rs) + 4

\* the position of the first ) at or after p, 0 for none
ClosingAt(text, p) ==
    LET js == {j \in p..Len(text) : text[j] = ")"}
    IN IF js = {} THEN 0 ELSE Least(js)

\* citation_pattern1 at i: the position after the match, 0 for none. Nothing
\* the pattern matches between ( and ) is a ), so the match ends at the
\* first ) after i
citation_pattern1(text, i) ==
    IF ~StandsAt(text, i, <<"(">>) THEN 0
    ELSE
    LET j == ClosingAt(text, i + 1)
        starts == NameStarts(text, i + 1)
        fits ==
            \E s \in 1..Len(starts) :
                LET oes == EndsAt(text, starts[s], OrgNames) IN
                \E o \in 1..Len(oes) :
                    /\ Boundary(text, oes[o])
                    /\ \E q \in oes[o]..Min(oes[o] + 150, j) :
                           LET kes == KeywordsEnds(text, q, CitationKeywords) IN
                           \E k \in 1..Len(kes) :
                               /\ Boundary(text, kes[k])
                               /\ \E r \in kes[k]..Min(kes[k] + 100, j - 4) :
                                      FourDigits(text, r) /\ j - (r + 4) <= 10
    IN IF j # 0 /\ fits THEN j + 1 ELSE 0

\* the rest of attribution_pattern after a name that ends at oe
AttributionRest(text, oe) ==
    IF ~Boundary(text, oe) THEN 0
    ELSE
    LET stop == {COMMA, "."}
        rest(q) ==
            LET kes == KeywordsEnds(text, q, AttributionKeywords)
            IN FirstHit([k \in 1..Len(kes) |-> DigitsAfter(text, kes[k], stop, 60)])
        qs == {q \in oe..Min(oe + 100, Len(text)) :
                   Clear(text, oe, q, stop) /\ rest(q) # 0}
    IN IF qs = {} THEN 0 ELSE rest(Least(qs))

\* an attribution phrase, \s+ and (?:the\s+)? at i: where the name may start
AttributionStarts(text, i) ==
    LET pes == EndsAt(text, i, AttributionPhrases)
    IN IF pes = <<>> \/ WsEnd(text, pes[1]) = pes[1] THEN <<>>
       ELSE NameStarts(text, WsEnd(text, pes[1]))

\* attribution_pattern at i: the position after the match, 0 for none
attribution_pattern(text, i) ==
    LET starts == AttributionStarts(text, i)
        from(s) ==
            LET oes == EndsAt(text, s, OrgNames)
            IN FirstHit([o \in 1..Len(oes) |-> AttributionRest(text, oes[o])])
    IN FirstHit([s \in 1..Len(starts) |-> from(starts[s])])

\* simple_pattern at i
simple_pattern(text, i) ==
    IF ~StandsAt(text, i, <<"(">>) THEN 0
    ELSE
    LET oes == EndsAt(text, i + 1, OrgNames)
        rest(oe) ==
            LET se == SepEnd(text, oe)
            IN IF se > oe /\ FourDigits(text, se) /\ StandsAt(text, se + 4, <<")">>)
               THEN se + 5 ELSE 0
    IN FirstHit([o \in 1..Len(oes) |-> rest(oes[o])])

\* alias_pattern at i: the match ends at the first ) after i
alias_pattern(text, i) ==
    IF ~StandsAt(text, i, <<"(">>) THEN 0
    ELSE
    LET j == ClosingAt(text, i + 1)
        starts == NameStarts(text, i + 1)
        fits ==
            \E s \in 1..Len(starts) :
                LET aes == EndsAt(text, starts[s], alias_names) IN
                \E a \in 1..Len(aes) :
                    \E r \in aes[a]..(j - 4) : FourDigits(text, r)
    IN IF j # 0 /\ fits THEN j + 1 ELSE 0

\* attribution_alias_pattern at i
attribution_alias_pattern(text, i) ==
    LET starts == AttributionStarts(text, i)
        from(s) ==
            LET aes == EndsAt(text, s, alias_names)
            IN FirstHit([a \in 1..Len(aes) |->
                             DigitsAfter(text, aes[a], {COMMA, "."}, 100)])
    IN FirstHit([s \in 1..Len(starts) |-> from(starts[s])])

\* the five patterns, in the order of the loop
PatternAt(n, text, i) ==
    CASE n = 1 -> citation_pattern1(text, i)
      [] n = 2 -> attribution_pattern(text, i)
      [] n = 3 -> simple_pattern(text, i)
      [] n = 4 -> alias_pattern(text, i)
      [] n = 5 -> attribution_alias_pattern(text, i)

\* the spans of the matches from position p on, start and the position after
\* the end; ends[i] is the position after the match that starts at i, 0 for none
RECURSIVE MatchesFrom(_, _)
MatchesFrom(ends, p) ==
    LET starts == {i \in p..Len(ends) : ends[i] # 0}
        m == Least(starts)
    IN IF starts = {} THEN <<>>
       ELSE <<[start |-> m, end |-> ends[m]]>> \o MatchesFrom(ends, ends[m])

\* re.finditer(pattern, text, re.IGNORECASE), for the n-th pattern
finditer(n, text) ==
    MatchesFrom([i \in 1..Len(text) |-> PatternAt(n, text, i)], 1)

\* the matches of the patterns n..5, pattern by pattern
RECURSIVE MatchesOfPatterns(_, _)
MatchesOfPatterns(n, text) ==
    IF n > 5 THEN <<>> ELSE finditer(n, text) \o MatchesOfPatterns(n + 1, text)

Overlaps(span, existing_span) ==
    ~(span.end <= existing_span.start \/ span.start >= existing_span.end)

\* the loop over the matches: a span that overlaps one of seen_spans is skipped
RECURSIVE keep_unseen(_, _)
keep_unseen(seen_spans, spans) ==
    IF spans = <<>> THEN seen_spans
    ELSE keep_unseen(
             IF \E k \in 1..Len(seen_spans) : Overlaps(Head(spans), seen_spans[k])
             THEN seen_spans
             ELSE Append(seen_spans, Head(spans)),
             Tail(spans))

\* all_matches, in match order: by pattern, then by position
all_matches(text) == keep_unseen(<<>>, MatchesOfPatterns(1, Upper(text)))

\* pat in text
Contains(text, pat) == \E p \in 1..(Len(text) - Len(pat) + 1) : StandsAt(text, p, pat)

\* the if/elif chain on citation_upper: any of the sets of words, all of its
\* words in the text
SOURCE_RULES ==
    <<[any |-> {{<<"A", "T", "S", "/", "I", "D", "S", "A">>}, {<<"A", "T", "S">>, <<"I", "D", "S", "A">>}}, source |-> "ATS/IDSA"],
      [any |-> {{<<"A", "C", "C", "/", "A", "H", "A">>}, {<<"A", "C", "C">>, <<"A", "H", "A">>}}, source |-> "ACC/AHA"],
      [any |-> {{<<"S", "U", "R", "V", "I", "V", "I", "N", "G", " ", "S", "E", "P", "S", "I", "S", " ", "C", "A", "M", "P", "A", "I", "G", "N">>}, {<<"S", "S", "C">>}}, source |-> "SSC"],
      [any |-> {{<<"S", "C", "C", "M">>}}, source |-> "SCCM"],
      [any |-> {{<<"E", "S", "I", "C", "M">>}}, source |-> "ESICM"],
      [any |-> {{<<"B", "T", "S">>}}, source |-> "BTS"],
      [any |-> {{<<"P", "U", "B", "M", "E", "D">>}, {<<"P", "M", "C">>}}, source |-> "PMC"],
      [any |-> {{<<"A", "D", "A">>, <<"A", "A", "D">>}}, source |-> "AAD or ADA"],
      [any |-> {{<<"W", "H", "O", " ", "M", "E", "N", "I", "N", "G", "I", "T", "I", "S">>}, {<<"M", "E", "N", "I", "N", "G", "I", "T", "I", "S">>, <<"W", "H", "O">>}}, source |-> "WHO_MENINGITIS"],
      [any |-> {{<<"W", "H", "O", " ", "T", "B">>}, {<<"W", "H", "O", " ", "T", "U", "B", "E", "R", "C", "U", "L", "O", "S", "I", "S">>}, {<<"T", "B">>, <<"W", "H", "O">>}}, source |-> "WHO_TB"],
      [any |-> {{<<"W", "H", "O", " ", "H", "E", "P", "A", "T", "I", "T", "I", "S">>}, {<<"H", "E", "P", "A", "T", "I", "T", "I", "S">>, <<"W", "H", "O">>}}, source |-> "WHO_HEPATITIS_B"],
      [any |-> {{<<"C", "D", "C", " ", "S", "E", "P", "S", "I", "S">>}, {<<"H", "O", "S", "P", "I", "T", "A", "L", " ", "S", "E", "P", "S", "I", "S">>}}, source |-> "CDC_SEPSIS"],
      [any |-> {{<<"C", "D", "C", " ", "L", "E", "G", "I", "O", "N", "E", "L", "L", "A">>}, {<<"L", "E", "G", "I", "O", "N", "E", "L", "L", "A">>}}, source |-> "CDC_LEGIONELLA"],
      [any |-> {{<<"C", "D", "C", " ", "R", "E", "S", "P", "I", "R", "A", "T", "O", "R", "Y">>}, {<<"R", "E", "S", "P", "I", "R", "A", "T", "O", "R", "Y", " ", "V", "I", "R", "U", "S">>}}, source |-> "CDC_RESPIRATORY"],
      [any |-> {{<<"U", "S", "P", "S", "T", "F", " ", "B", "R", "E", "A", "S", "T">>}, {<<"B", "R", "E", "A", "S", "T", " ", "C", "A", "N", "C", "E", "R", " ", "S", "C", "R", "E", "E", "N", "I", "N", "G">>}}, source |-> "USPSTF_BREAST"],
      [any |-> {{<<"U", "S", "P", "S", "T", "F", " ", "C", "O", "L", "O", "R", "E", "C", "T", "A", "L">>}, {<<"C", "O", "L", "O", "R", "E", "C", "T", "A", "L", " ", "C", "A", "N", "C", "E", "R">>}}, source |-> "USPSTF_COLORECTAL"],
      [any |-> {{<<"U", "S", "P", "S", "T", "F", " ", "D", "I", "A", "B", "E", "T", "E", "S">>}, {<<"P", "R", "E", "D", "I", "A", "B", "E", "T", "E", "S">>, <<"U", "S", "P", "S", "T", "F">>}}, source |-> "USPSTF_DIABETES"],
      [any |-> {{<<"U", "S", "P", "S", "T", "F", " ", "S", "T", "A", "T", "I", "N">>}, {<<"U", "S", "P", "S", "T", "F", " ", "C", "A", "R", "D", "I", "O", "V", "A", "S", "C", "U", "L", "A", "R">>}}, source |-> "USPSTF_CARDIO"],
      [any |-> {{<<"U", "S", "P", "S", "T", "F">>}}, source |-> "USPSTF"],
      [any |-> {{<<"N", "C", "C", "N">>}}, source |-> "NCCN"],
      [any |-> {{<<"A", "S", "C", "O">>}}, source |-> "ASCO"],
      [any |-> {{<<"E", "S", "M", "O">>}}, source |-> "ESMO"],
      [any |-> {{<<"A", "A", "D", " ", "M", "E", "L", "A", "N", "O", "M", "A">>}, {<<"M", "E", "L", "A", "N", "O", "M", "A">>, <<"A", "A", "D">>}}, source |-> "AAD_MELANOMA"],
      [any |-> {{<<"A", "A", "D">>}}, source |-> "AAD"],
      [any |-> {{<<"A", "C", "R">>}}, source |-> "ACR"],
      [any |-> {{<<"A", "D", "A">>}}, source |-> "ADA"],
      [any |-> {{<<"A", "H", "A">>}}, source |-> "AHA"],
      [any |-> {{<<"C", "H", "E", "S", "T">>}}, source |-> "CHEST"],
      [any |-> {{<<"W", "H", "O">>}}, source |-> "WHO"],
      [any |-> {{<<"N", "I", "C", "E">>}}, source |-> "NICE"],
      [any |-> {{<<"I", "D", "S", "A">>}}, source |-> "IDSA"],
      [any |-> {{<<"C", "D", "C">>}}, source |-> "CDC"],
      [any |-> {{<<"A", "C", "C">>}}, source |-> "ACC"],
      [any |-> {{<<"A", "T", "S">>}}, source |-> "ATS"]>>

SkinWords ==
    {<<"D", "E", "R", "M", "A", "T", "O", "L", "O", "G", "Y">>, <<"S", "K", "I", "N">>, <<"M", "E", "L", "A", "N", "O", "M", "A">>, <<"P", "S", "O", "R", "I", "A", "S", "I", "S">>, <<"E", "C", "Z", "E", "M", "A">>}

\* the source of a match
source_of(text, span) ==
    LET citation_upper == Upper(SubSeq(text, span.start, span.end - 1))
        aliases == SelectSeq(ORG_ALIASES, LAMBDA a : Contains(citation_upper, a.alias))
        rules == SelectSeq(SOURCE_RULES,
                           LAMBDA r : \E words \in r.any :
                                          \A w \in words : Contains(citation_upper, w))
        lo == IF span.start - 200 < 1 THEN 1 ELSE span.start - 200
        context_window == Upper(SubSeq(text, lo, Min(Len(text), span.end - 1 + 200)))
    IN IF aliases # <<>> THEN aliases[1].canonical
       ELSE IF rules = <<>> THEN "Unknown"
       ELSE IF rules[1].source = "AAD or ADA"
            THEN IF \E w \in SkinWords : Contains(context_window, w)
                 THEN "AAD" ELSE "ADA"
       ELSE rules[1].source

\* the citation dict of a match
citation_of(text, span) ==
    LET citation_text == SubSeq(text, span.start, span.end - 1)
        source == source_of(text, span)
        output_source == IF source = "AAD_MELANOMA" THEN "AAD" ELSE source
    IN [text |-> IF StandsAt(citation_text, 1, <<"(">>) THEN citation_text
                 ELSE <<"(">> \o citation_text \o <<")">>,
        url |-> GUIDELINE_URLS(output_source),
        source |-> output_source]

\* the citation dicts of the matches
CitationsOf(text, matches) ==
    [k \in 1..Len(matches) |-> citation_of(text, matches[k])]

\* citations, before the duplicates are removed
citations(text) == CitationsOf(text, all_matches(text))

\* (?:According to the|Per the|Based on the)
KeyPrefixes ==
    <<<<"A", "C", "C", "O", "R", "D", "I", "N", "G", " ", "T", "O", " ", "T", "H", "E">>, <<"P", "E", "R", " ", "T", "H", "E">>, <<"B", "A", "S", "E", "D", " ", "O", "N", " ", "T", "H", "E">>>>

\* re.sub(r"^\(?\s*(?:According to the|Per the|Based on the)\s+", "", text)
StripPrefix(text) ==
    LET U == Upper(text)
        a == WsEnd(U, IF StandsAt(U, 1, <<"(">>) THEN 2 ELSE 1)
        pes == EndsAt(U, a, KeyPrefixes)
    IN IF pes # <<>> /\ WsEnd(U, pes[1]) > pes[1]
       THEN SubSeq(text, WsEnd(U, pes[1]), Len(text))
       ELSE text

\* _normalize_citation_key(c): source and the first \d{4} of the stripped text
normalize_citation_key(c) ==
    LET text == StripPrefix(c.text)
        rs == {r \in 1..Len(text) : FourDigits(text, r)}
        year == IF rs = {} THEN <<>> ELSE SubSeq(text, Least(rs), Least(rs) + 3)
    IN <<c.source, year>>

\* the citations that are the last of their key
unique_citations_last(cites) ==
    LET lasts == {i \in 1..Len(cites) :
                      \A j \in (i + 1)..Len(cites) :
                          normalize_citation_key(cites[j]) # normalize_citation_key(cites[i])}
        nth(k) == CHOOSE i \in lasts : Cardinality({j \in lasts : j < i}) = k - 1
    IN [k \in 1..Cardinality(lasts) |-> cites[nth(k)]]

\* the loop over citations with the set seen
RECURSIVE keep_first(_, _, _)
keep_first(unique, seen, rest) ==
    IF rest = <<>> THEN unique
    ELSE LET c == Head(rest)
             key == normalize_citation_key(c)
         IN IF key \notin seen
            THEN keep_first(Append(unique, c), seen \cup {key}, Tail(rest))
            ELSE keep_first(unique, seen, Tail(rest))

unique_citations(cites) == keep_first(<<>>, {}, cites)

\* extract_citations(text): the text as it came, and the citations
extract_citations(text) ==
    [text |-> text, citations |-> unique_citations(citations(text))]

\* the passages the texts are made of
CitationPassages ==
    <<<<"(", "N", "C", "C", "N", " ", "G", "u", "i", "d", "e", "l", "i", "n", "e", "s", ",", " ", "2", "0", "2", "4", ")">>,
      <<"(", "N", "C", "C", "N", " ", "2", "0", "2", "4", ")">>,
      <<"P", "e", "r", " ", "t", "h", "e", " ", "N", "C", "C", "N", " ", "g", "u", "i", "d", "e", "l", "i", "n", "e", "s", " ", "2", "0", "2", "4">>,
      <<"(", "N", "C", "C", "N", " ", "2", "0", "2", "3", ")">>,
      <<"(", "I", "D", "S", "A", ",", " ", "2", "0", "2", "3", ")">>,
      <<"A", "c", "c", "o", "r", "d", "i", "n", "g", " ", "t", "o", " ", "S", "m", "i", "t", "h", " ", "e", "t", " ", "a", "l", ".", " ", "(", "2", "0", "2", "3", ")">>,
      <<"(", "B", "r", "i", "t", "i", "s", "h", " ", "T", "h", "o", "r", "a", "c", "i", "c", " ", "S", "o", "c", "i", "e", "t", "y", ",", " ", "2", "0", "0", "9", ")">>,
      <<"P", "e", "r", " ", "B", "r", "i", "t", "i", "s", "h", " ", "T", "h", "o", "r", "a", "c", "i", "c", " ", "S", "o", "c", "i", "e", "t", "y", " ", "g", "u", "i", "d", "e", "l", "i", "n", "e", "s", " ", "2", "0", "0", "9">>,
      <<"(", "C", "D", "C", " ", "L", "e", "g", "i", "o", "n", "e", "l", "l", "a", " ", "G", "u", "i", "d", "e", "l", "i", "n", "e", "s", ",", " ", "2", "0", "2", "4", ")">>,
      <<"(", "C", "D", "C", " ", "G", "u", "i", "d", "e", "l", "i", "n", "e", "s", ",", " ", "2", "0", "2", "4", ")">>>>

\* what stands between two passages
PassageEnd == <<".", " ">>

RECURSIVE JoinPassages(_)
JoinPassages(ns) ==
    IF Len(ns) = 1 THEN CitationPassages[ns[1]]
    ELSE CitationPassages[ns[1]] \o PassageEnd \o JoinPassages(Tail(ns))

\* the texts extract_citations is applied to: up to MaxPassages passages
CitationTexts ==
    {JoinPassages(ns) : ns \in UNION {[1..n -> 1..Len(CitationPassages)] :
                                          n \in 1..MaxPassages}}

\* extract_citations(text) is called and returns
extract_citations_call ==
    /\ libcall.fn = "extract_citations" /\ libcall.pc = "called"
    /\ libcall' = [libcall EXCEPT
                       !.pc = "returned",
                       !.outcome = Returned(extract_citations(libcall.arg))]
    /\ UNCHANGED <<service, limiter, modal_app>>

\* extract_citations is called a second time, on the text the first call returned
extract_citations_again ==
    /\ libcall.fn = "extract_citations" /\ libcall.pc = "returned"
    /\ libcall' = [libcall EXCEPT
                       !.pc = "again",
                       !.arg = libcall.outcome.val.text,
                       !.outcome = Returned(extract_citations(libcall.outcome.val.text))]
    /\ UNCHANGED <<service, limiter, modal_app>>

----------------------------------------------------------------------------
(* The texts the parsers are applied to *)

\* the compact JSON text of a value
RECURSIVE Dumps(_)
RECURSIVE DumpsItems(_, _)
RECURSIVE DumpsElems(_, _)
Dumps(val) ==
    IF val.t = "str" THEN <<QUOTE>> \o EscapeStr(val.v) \o <<QUOTE>>
    ELSE IF val.t = "num" THEN val.v
    ELSE IF val.t = "obj" THEN <<LBRACE>> \o DumpsItems(val.v, 1) \o <<RBRACE>>
    ELSE <<LBRACK>> \o DumpsElems(val.v, 1) \o <<RBRACK>>

DumpsItems(items, i) ==
    IF i > Len(items) THEN <<>>
    ELSE (IF i > 1 THEN <<COMMA>> ELSE <<>>)
         \o <<QUOTE>> \o EscapeStr(items[i].k) \o <<QUOTE, COLON>>
         \o Dumps(items[i].val) \o DumpsItems(items, i + 1)

DumpsElems(elems, i) ==
    IF i > Len(elems) THEN <<>>
    ELSE (IF i > 1 THEN <<COMMA>> ELSE <<>>) \o Dumps(elems[i])
         \o DumpsElems(elems, i + 1)

\* the length of an object's text up to the end of its i-th item
ItemEnd(items, i) == 1 + Len(DumpsItems(SubSeq(items, 1, i), 1))

\* the objects the models answer with: a reply with an escaped quote and a
\* differential; a string ending in a backslash, a newline and a nested
\* object; a reply whose ai_response is the text of a whole reply; a reply
\* whose ai_response is the text of a reply with an object for ai_response
Docs ==
    <<Obj(<<Item(<<"ai_response">>, Str(<<"a", QUOTE, "c">>)),
            Item(<<"a">>, Arr(<<Num(<<"1">>),
                                Obj(<<Item(<<"name">>, Str(<<"c">>))>>)>>)),
            Item(<<"n">>, Num(<<"1", "2">>))>>),
      Obj(<<Item(<<"a">>, Str(<<"c", BACKSLASH>>)),
            Item(<<"name">>, Str(<<"n", NEWLINE, "a">>)),
            Item(<<"n">>, Obj(<<Item(<<"a">>, Str(<<"c", COMMA>>))>>))>>),
      Obj(<<Item(<<"ai_response">>,
                 Str(Dumps(Obj(<<Item(<<"ai_response">>, Str(<<"c", SPACE, "a">>)),
                                 Item(<<"a">>, Str(<<"n">>))>>)))),
            Item(<<"a">>, Str(<<"c">>)),
            Item(<<"n">>, Str(<<"a">>))>>),
      Obj(<<Item(<<"ai_response">>,
                 Str(Dumps(Obj(<<Item(<<"ai_response">>,
                                      Obj(<<Item(<<"a">>, Str(<<"c">>))>>))>>)))),
            Item(<<"n">>, Str(<<"a">>))>>)>>

\* texts that are not a cut of a JSON object: prose, JSON that is no
\* object, an object in prose, a missing comma at a line break, a trailing
\* comma, braces the wrong way round
OtherTexts ==
    {<<"a", SPACE, "c">>,
     <<"1", "2">>,
     <<QUOTE, "a", QUOTE>>,
     <<LBRACK, "1", RBRACK>>,
     <<"a", RBRACE>>,
     <<"a", RBRACE, SPACE, LBRACE>>,
     <<LBRACE, "a", RBRACE>>,
     <<"a", SPACE, LBRACE, QUOTE, "a", QUOTE, COLON, "1", RBRACE, SPACE, "c">>,
     <<LBRACE, QUOTE, "a", QUOTE, COLON, QUOTE, "c", QUOTE, NEWLINE,
       QUOTE, "n", QUOTE, COLON, "1", RBRACE>>,
     <<LBRACE, QUOTE, "a", QUOTE, COLON, QUOTE, "c", NEWLINE, "a", QUOTE, COMMA,
       SPACE, RBRACE>>,
     <<LBRACE, QUOTE, "a", QUOTE, COLON, LBRACK, LBRACE, QUOTE, "name", QUOTE,
       COLON, QUOTE, "c", QUOTE, RBRACE, COMMA, LBRACE, QUOTE, "name", QUOTE,
       COLON, "1", RBRACE, RBRACE>>}

\* the inputs: every cut of every object's text (doc and cut say which), and
\* the other texts (doc = 0)
ParserInputs ==
    UNION {{[arg |-> SubSeq(Dumps(Docs[d]), 1, n), doc |-> d, cut |-> n] :
                n \in 1..Len(Dumps(Docs[d]))} : d \in 1..Len(Docs)}
    \cup {[arg |-> x, doc |-> 0, cut |-> 0] : x \in OtherTexts}

\* no library call under examination
NoCall ==
    [fn |-> "none", pc |-> "idle", arg |-> <<>>, doc |-> 0, cut |-> 0,
     outcome |-> Returned(Null)]

\* extract_json(text) is called and returns or raises
extract_json_call ==
    /\ libcall.fn = "extract_json" /\ libcall.pc = "called"
    /\ libcall' = [libcall EXCEPT !.pc = "returned",
                                  !.outcome = extract_json(libcall.arg)]
    /\ UNCHANGED <<service, limiter, modal_app>>

\* _parse_orchestrator_response(text) is called and returns or raises
parse_orchestrator_response_call ==
    /\ libcall.fn = "parse_orchestrator_response" /\ libcall.pc = "called"
    /\ libcall' = [libcall EXCEPT
                       !.pc = "returned",
                       !.outcome = parse_orchestrator_response(libcall.arg)]
    /\ UNCHANGED <<service, limiter, modal_app>>

----------------------------------------------------------------------------
(* Specifications *)

\* the retrieval cache is not under examination
NoApp == [rag_query_cache |-> <<>>]

InitService(slots) ==
    /\ sessions = <<>>
    /\ heap = [o \in ObjIds |-> DeadState]
    /\ turns = [t \in slots |-> IdleTurn]
    /\ gemini_available \in BOOLEAN
    /\ medgemma_executor = IdleExecutor

InitWith(slots) ==
    /\ InitService(slots)
    /\ libcall = NoCall
    /\ limiter = RateLimiter
    /\ modal_app = NoApp

Init == InitWith({1})

\* Spec: one client session, followed through MaxRound turns
Next ==
    \E t \in DOMAIN turns :
        \/ \E req \in Requests(EnvDeep), uuid \in UuidPool :
              debate_turn_orchestrated(t, req, uuid, EnvDeep.cap, EnvDeep.rag_available)
        \/ \E req \in Requests(EnvDeep) : debate_turn_unavailable(t, req)
        \/ pdt_formulate(t, EnvDeep)
        \/ pdt_query_medgemma(t)
        \/ pdt_synthesize(t, EnvDeep)
        \/ debate_turn_medgemma_only(t, EnvDeep)
        \/ send_response(t)

Spec == Init /\ [][Next]_vars

\* SpecSessions: several sessions competing for the table
NextSessions ==
    \E t \in DOMAIN turns :
        \/ \E req \in Requests(EnvWide), uuid \in UuidPool :
              debate_turn_orchestrated(t, req, uuid, EnvWide.cap, EnvWide.rag_available)
        \/ \E req \in Requests(EnvWide) : debate_turn_unavailable(t, req)
        \/ pdt_formulate(t, EnvWide)
        \/ pdt_query_medgemma(t)
        \/ pdt_synthesize(t, EnvWide)
        \/ debate_turn_medgemma_only(t, EnvWide)
        \/ send_response(t)

SpecSessions == Init /\ [][NextSessions]_vars

\* SpecSummary: one session, rounds that _create_episode_summary cannot read
NextSummary ==
    \E t \in DOMAIN turns :
        \/ \E req \in Requests(EnvSummary), uuid \in UuidPool :
              debate_turn_orchestrated(t, req, uuid, EnvSummary.cap,
                                       EnvSummary.rag_available)
        \/ \E req \in Requests(EnvSummary) : debate_turn_unavailable(t, req)
        \/ pdt_formulate(t, EnvSummary)
        \/ pdt_query_medgemma(t)
        \/ pdt_synthesize(t, EnvSummary)
        \/ debate_turn_medgemma_only(t, EnvSummary)
        \/ send_response(t)

SpecSummary == Init /\ [][NextSummary]_vars

\* SpecEvict: two handler slots and three session ids for a table of two.
\* A turn that has started runs on: process_debate_turn is in its worker
\* thread and the handler awaits it.
TurnStep(t) ==
    \/ pdt_formulate(t, EnvEvict)
    \/ pdt_query_medgemma(t)
    \/ pdt_synthesize(t, EnvEvict)
    \/ debate_turn_medgemma_only(t, EnvEvict)

NextEvict ==
    \E t \in DOMAIN turns :
        \/ \E req \in Requests(EnvEvict), uuid \in UuidPool :
              debate_turn_orchestrated(t, req, uuid, EnvEvict.cap,
                                       EnvEvict.rag_available)
        \/ \E req \in Requests(EnvEvict) : debate_turn_unavailable(t, req)
        \/ TurnStep(t)
        \/ send_response(t)

SpecEvict ==
    /\ InitWith({1, 2})
    /\ [][NextEvict]_vars
    /\ \A t \in {1, 2} : WF_vars(TurnStep(t))

\* SpecRag: one session with the retriever available
NextRag ==
    \E t \in DOMAIN turns :
        \/ \E req \in Requests(EnvRag), uuid \in UuidPool :
              debate_turn_orchestrated(t, req, uuid, EnvRag.cap, EnvRag.rag_available)
        \/ \E req \in Requests(EnvRag) : debate_turn_unavailable(t, req)
        \/ rag_join(t)
        \/ pdt_formulate(t, EnvRag)
        \/ pdt_query_medgemma(t)
        \/ pdt_synthesize(t, EnvRag)
        \/ debate_turn_medgemma_only(t, EnvRag)
        \/ send_response(t)

SpecRag == Init /\ [][NextRag]_vars

\* SpecModal: the Modal deployment's handler
NextModal ==
    \E t \in DOMAIN turns :
        \/ \E req \in Requests(EnvModal), uuid \in UuidPool :
              modal_debate_turn_orchestrated(t, req, uuid, EnvModal.cap)
        \/ \E req \in Requests(EnvModal), uuid \in UuidPool :
              modal_debate_turn_unavailable(t, req, uuid)
        \/ modal_pdt_formulate(t, EnvModal)
        \/ modal_query_medgemma(t)
        \/ modal_pdt_synthesize(t)
        \/ modal_debate_turn_medgemma_only(t, EnvModal)
        \/ send_response(t)

SpecModal == Init /\ [][NextModal]_vars

\* SpecExec: two handler slots, the MedGemma step on the executor
InitExec == InitWith({1, 2})

NextExec ==
    \/ \E t \in DOMAIN turns :
        \/ \E req \in Requests(EnvExec), uuid \in UuidPool :
              debate_turn_orchestrated(t, req, uuid, EnvExec.cap, EnvExec.rag_available)
        \/ \E req \in Requests(EnvExec) : debate_turn_unavailable(t, req)
        \/ pdt_formulate(t, EnvExec)
        \/ executor_submit(t)
        \/ executor_result(t)
        \/ executor_timeout(t)
        \/ pdt_synthesize(t, EnvExec)
        \/ debate_turn_medgemma_only(t, EnvExec)
        \/ send_response(t)
    \/ worker_start
    \/ worker_finish
    \/ tick

SpecExec == InitExec /\ [][NextExec]_vars

\* SpecLimiter: clients calling one RateLimiter while time passes
NextLimiter ==
    \/ \E identifier \in Identifiers : is_allowed_call(identifier)
    \/ clock_tick

SpecLimiter == Init /\ [][NextLimiter]_vars

\* SpecHallucination: one call of check_hallucination on one of the inputs
InitHallucination ==
    /\ InitService({1})
    /\ \E x \in HallucinationInputs :
            libcall = [fn |-> "check_hallucination", pc |-> "called", arg |-> x,
                       doc |-> 0, cut |-> 0, outcome |-> Returned(Null)]
    /\ limiter = RateLimiter
    /\ modal_app = NoApp

NextHallucination == check_hallucination_call

SpecHallucination == InitHallucination /\ [][NextHallucination]_vars

\* SpecParse: one call of a response parser on one of the input texts
InitParse ==
    /\ InitService({1})
    /\ \E f \in {"extract_json", "parse_orchestrator_response"},
          x \in ParserInputs :
            libcall = [fn |-> f, pc |-> "called", arg |-> x.arg, doc |-> x.doc,
                       cut |-> x.cut, outcome |-> Returned(Null)]
    /\ limiter = RateLimiter
    /\ modal_app = NoApp

NextParse ==
    \/ extract_json_call
    \/ parse_orchestrator_response_call

SpecParse == InitParse /\ [][NextParse]_vars

\* SpecCitations: extract_citations applied to one of the texts, and then to
\* the text it returned
InitCitations ==
    /\ InitService({1})
    /\ \E x \in CitationTexts :
            libcall = [fn |-> "extract_citations", pc |-> "called", arg |-> x,
                       doc |-> 0, cut |-> 0, outcome |-> Returned(Null)]
    /\ limiter = RateLimiter
    /\ modal_app = NoApp

NextCitations ==
    \/ extract_citations_call
    \/ extract_citations_again

SpecCitations == InitCitations /\ [][NextCitations]_vars

----------------------------------------------------------------------------
(* modal_backend: _call_vllm_chat and GeminiOrchestrator.query_medgemma *)

\* the context window of the specialist model, in tokens
model_max_context == 4096

\* _preclamp_output_tokens: the tokens kept free beside input and output
safety_margin == 96

\* _infer_retry_max_tokens: the tokens kept free in a retry
safe_margin == 32

\* the least max_tokens a request carries
FloorTokens == 128

\* the max_tokens of a request sent after an input overflow is at most this
OverflowTokens == 1024

\* query_medgemma's first max_tokens
OrchestratorTokens == 2048

\* _compact_messages_for_retry keeps this many characters of a text content,
\* query_medgemma this many of the clinical context
CompactChars == 2800
ContextChars == 1800

\* the characters _estimate_input_tokens counts for a message beside its content
MessageOverhead == 24

\* Len("\n...[truncated for token budget]...\n")
MarkerChars == 36

\* _truncate_text(text, max_chars), a text by its length: a longer text keeps
\* its head and its tail around the marker
truncate_text(chars, max_chars) ==
    IF chars <= max_chars
    THEN chars
    ELSE LET head == (max_chars * 7) \div 10
             tail == max_chars - head - 32
         IN head + MarkerChars + tail

\* the messages of a request are text contents, each by its length
RECURSIVE MessageChars(_)
MessageChars(messages) ==
    IF messages = <<>>
    THEN 0
    ELSE MessageOverhead + Head(messages) + MessageChars(Tail(messages))

\* _estimate_input_tokens(messages): max(1, int(chars / 3.4))
estimate_input_tokens(messages) ==
    LET tokens == (MessageChars(messages) * 10) \div 34
    IN IF tokens >= 1 THEN tokens ELSE 1

\* _preclamp_output_tokens(messages, requested_max_tokens):
\* max(128, min(requested_max_tokens, available_tokens))
preclamp_output_tokens(messages, requested_max_tokens) ==
    LET available_tokens ==
            model_max_context - estimate_input_tokens(messages) - safety_margin
        least == Min(requested_max_tokens, available_tokens)
    IN IF least >= FloorTokens THEN least ELSE FloorTokens

\* _compact_messages_for_retry(messages)
compact_messages_for_retry(messages) ==
    [i \in 1..Len(messages) |-> truncate_text(messages[i], CompactChars)]

\* What the retry decisions read in the error message of a failed response:
\* whether it names max_tokens, the numbers of "(requested > max_len - input)",
\* the numbers of "maximum context length is N ... request has M input tokens"
\* (as the server writes it, in lower case), and whether it holds
\* "parameter=input_tokens". Absent numbers are <<>>.
ErrorMessage(max_tokens, expression, context, parameter) ==
    [max_tokens |-> max_tokens, expression |-> expression, context |-> context,
     parameter |-> parameter]

NoError == ErrorMessage(FALSE, <<>>, <<>>, FALSE)

\* _infer_retry_max_tokens(error_message, requested_max_tokens); 0 stands for
\* None (the callers test the result for truth)
infer_retry_max_tokens(error_message, requested_max_tokens) ==
    IF ~error_message.max_tokens
    THEN 0
    ELSE LET limits == IF error_message.expression # <<>>
                       THEN error_message.expression
                       ELSE error_message.context
         IN IF limits = <<>>
            THEN 0
            ELSE LET room == limits[1] - limits[2] - safe_margin
                     retry_max_tokens ==
                         IF room >= FloorTokens THEN room ELSE FloorTokens
                 IN IF retry_max_tokens >= requested_max_tokens
                    THEN 0
                    ELSE retry_max_tokens

\* _is_input_overflow_error(error_message)
is_input_overflow_error(error_message) ==
    error_message.parameter \/ error_message.context # <<>>

\* the input tokens the server reports in the model, and its error messages
ReportedInputs == {1000, 3000, 3900, 4000}

ErrorMessages ==
    {ErrorMessage(TRUE, <<model_max_context, n>>, <<>>, FALSE) :
        n \in ReportedInputs}
    \cup {ErrorMessage(m, <<>>, <<model_max_context, n>>, FALSE) :
            m \in BOOLEAN, n \in {3000, 4000}}
    \cup {ErrorMessage(FALSE, <<>>, <<>>, p) : p \in BOOLEAN}

\* The responses of the specialist server: a 200 whose first choice carries a
\* message with a text content ("" is the empty text), a null content or a
\* null message, a 200 without choices, a 200 whose body is not JSON, and the
\* error responses.
VllmResponse(status_code, payload, message, content, finish_reason, error) ==
    [status_code |-> status_code, payload |-> payload, message |-> message,
     content |-> content, finish_reason |-> finish_reason, error |-> error]

VllmResponses ==
    {VllmResponse(200, "choices", "dict", c, f, NoError) :
        c \in {"answer", "", None}, f \in {"stop", "length"}}
    \cup {VllmResponse(200, "choices", "null", None, None, NoError),
          VllmResponse(200, "no_choices", "none", None, None, NoError)}
    \cup {VllmResponse(s, p, "none", None, None, e) :
            s \in {400}, p \in {"error"}, e \in ErrorMessages}
    \cup {VllmResponse(200, "not_json", "none", None, None, e) :
            e \in {NoError, ErrorMessage(TRUE, <<model_max_context, 3000>>,
                                         <<>>, FALSE)}}

\* the call under examination: its arguments, the loop's variables, and the
\* requests sent so far, each with its max_tokens and what it follows
VllmCall(fn, messages, max_tokens, first) ==
    [fn |-> fn, pc |-> "post",
     arg |-> [messages |-> messages, max_tokens |-> max_tokens],
     messages_to_send |-> messages, requested_max_tokens |-> first,
     attempt |-> 0, compacted_for_input_overflow |-> FALSE, follows |-> "call",
     sent |-> <<>>, outcome |-> Returned(Null)]

\* the request of this iteration joins the requests sent
Posted(c) ==
    Append(c.sent, [max_tokens |-> c.requested_max_tokens,
                    follows |-> c.follows])

\* the call ends
Ended(c, outcome) ==
    [c EXCEPT !.pc = "returned", !.outcome = outcome, !.sent = Posted(c)]

\* the loop goes to its second iteration
Retried(c, messages, max_tokens, follows) ==
    [c EXCEPT !.attempt = 1, !.messages_to_send = messages,
              !.requested_max_tokens = max_tokens, !.follows = follows,
              !.compacted_for_input_overflow = (follows = "input_overflow"),
              !.sent = Posted(c)]

\* the part of the loop that follows a failed response, with the max_tokens
\* of a retry after a token-budget error and after an input overflow
AfterError(c, error_message, budget_tokens, compacted, overflow_tokens) ==
    IF budget_tokens # 0 /\ c.attempt = 0
    THEN Retried(c, c.messages_to_send, budget_tokens, "token_budget")
    ELSE IF /\ is_input_overflow_error(error_message)
            /\ c.attempt = 0
            /\ ~c.compacted_for_input_overflow
         THEN Retried(c, compacted, overflow_tokens, "input_overflow")
         ELSE Ended(c, Raised("RuntimeError"))

\* One iteration of _call_vllm_chat's loop: the request is sent and resp is
\* the server's response.
call_vllm_chat_post(resp) ==
    /\ libcall.fn = "_call_vllm_chat" /\ libcall.pc = "post"
    /\ libcall' =
         IF resp.status_code = 200 /\ resp.payload \in {"choices", "no_choices"}
         THEN IF resp.payload = "choices" /\ resp.message = "null"
              THEN Ended(libcall, Raised("AttributeError"))
              ELSE IF resp.payload = "choices" /\ resp.content # None
                   THEN Ended(libcall,
                              Returned([content |-> resp.content,
                                        max_tokens |-> libcall.requested_max_tokens,
                                        finish_reason |-> resp.finish_reason]))
                   ELSE Ended(libcall, Raised("RuntimeError"))
         ELSE LET retry_max_tokens ==
                      infer_retry_max_tokens(resp.error,
                                             libcall.requested_max_tokens)
                  compacted == compact_messages_for_retry(libcall.messages_to_send)
              IN AfterError(libcall, resp.error,
                            IF retry_max_tokens = 0
                            THEN 0
                            ELSE preclamp_output_tokens(libcall.messages_to_send,
                                                        retry_max_tokens),
                            compacted,
                            preclamp_output_tokens(
                                compacted,
                                Min(libcall.requested_max_tokens, OverflowTokens)))
    /\ UNCHANGED <<service, limiter, modal_app>>

\* One iteration of query_medgemma's loop (the Modal orchestrator): a 200
\* without a text content goes on to the error handling, whose message is
\* then the body of the response.
query_medgemma_post(resp) ==
    /\ libcall.fn = "query_medgemma" /\ libcall.pc = "post"
    /\ libcall' =
         IF /\ resp.status_code = 200 /\ resp.payload = "choices"
            /\ resp.message = "null"
         THEN Ended(libcall, Raised("AttributeError"))
         ELSE IF /\ resp.status_code = 200 /\ resp.payload = "choices"
                 /\ resp.content # None
              THEN Ended(libcall,
                         Returned([content |-> resp.content,
                                   max_tokens |-> libcall.requested_max_tokens,
                                   finish_reason |-> resp.finish_reason]))
              ELSE AfterError(libcall, resp.error,
                              infer_retry_max_tokens(resp.error,
                                                     libcall.requested_max_tokens),
                              [i \in 1..Len(libcall.messages_to_send) |->
                                  truncate_text(libcall.messages_to_send[i],
                                                ContextChars)],
                              Min(libcall.requested_max_tokens, OverflowTokens))
    /\ UNCHANGED <<service, limiter, modal_app>>

\* the messages and the max_tokens of the calls of the model
VllmMessages == {<<100>>, <<400, 9000>>, <<13000>>, <<14000>>}
VllmMaxTokens == {64, 512, 2048}

\* SpecVllm: one call of _call_vllm_chat or of query_medgemma (whose messages
\* are the clinical context), and the server's response to each request
InitVllm ==
    /\ InitService({1})
    /\ \/ \E messages \in VllmMessages, max_tokens \in VllmMaxTokens :
            libcall = VllmCall("_call_vllm_chat", messages, max_tokens,
                               preclamp_output_tokens(messages, max_tokens))
       \/ \E messages \in VllmMessages :
            libcall = VllmCall("query_medgemma", messages, OrchestratorTokens,
                               OrchestratorTokens)
    /\ limiter = RateLimiter
    /\ modal_app = NoApp

NextVllm ==
    \/ \E resp \in VllmResponses : call_vllm_chat_post(resp)
    \/ \E resp \in VllmResponses : query_medgemma_post(resp)

SpecVllm == InitVllm /\ [][NextVllm]_vars

----------------------------------------------------------------------------
(* modal_backend: the retrieval cache of the Modal app *)

\* the cache keys, the contexts a retrieval gives ("" when nothing relevant
\* was found), and the handler slots of the model
RagKeys == {"k1", "k2", "k3"}
RagContexts == {"", "guideline"}
RagSlots == {1, 2}

\* the clock of the model stops here, and so do the lookups
MaxNowRag == 3
MaxLookups == 4

\* RAG_CACHE_TTL_SECONDS and RAG_CACHE_MAX_ENTRIES in the model
RagTtls == {0, 1}
RagMaxEntries == {1, 2}

\* a handler slot: idle, or between its lookup and the end of its retrieval;
\* returned is what its last call gave back
IdleLookup == [pc |-> "idle", cache_key |-> "", returned |-> ""]

\* The app after construction: rag_query_cache is an OrderedDict, here the
\* sequence of its entries in the dict's order; now is time.time(); last is
\* the latest call of _rag_cache_get ("get") or _rag_cache_set ("set") with
\* its key and the context returned or given ("none" after a retrieval that
\* failed).
ModalApp(ttl, max_entries) ==
    [rag_cache_ttl_seconds |-> ttl, rag_cache_max_entries |-> max_entries,
     rag_query_cache |-> <<>>, rag_cache_hits |-> 0, rag_cache_misses |-> 0,
     now |-> 0, lookups |-> [c \in RagSlots |-> IdleLookup],
     last |-> [op |-> "none", cache_key |-> "", context |-> ""]]

\* the position of cache_key in the cache, 0 when it has no entry
PositionOf(cache, cache_key) ==
    LET at == {i \in 1..Len(cache) : cache[i].key = cache_key}
    IN IF at = {} THEN 0 ELSE CHOOSE i \in at : TRUE

\* dict.pop(cache_key)
Popped(cache, cache_key) ==
    SelectSeq(cache, LAMBDA e : e.key # cache_key)

\* dict[cache_key] = entry: an entry of the key is replaced where it stands,
\* a new key goes to the end
Assigned(cache, entry) ==
    IF PositionOf(cache, entry.key) = 0
    THEN Append(cache, entry)
    ELSE [cache EXCEPT ![PositionOf(cache, entry.key)] = entry]

\* a slip: the age of the entry is not looked at
rag_cache_get_stale(app, cache_key) ==
    LET i == PositionOf(app.rag_query_cache, cache_key)
    IN IF app.rag_cache_ttl_seconds <= 0
       THEN [app |-> app, context |-> ""]
       ELSE IF i = 0
            THEN [app |-> [app EXCEPT !.rag_cache_misses = @ + 1],
                  context |-> ""]
            ELSE [app |-> [app EXCEPT !.rag_cache_hits = @ + 1],
                  context |-> app.rag_query_cache[i].context]

\* _rag_cache_get(cache_key): the app afterwards and the context returned
rag_cache_get(app, cache_key) ==
    LET i == PositionOf(app.rag_query_cache, cache_key)
        miss == [app EXCEPT !.rag_cache_misses = @ + 1]
    IN IF app.rag_cache_ttl_seconds <= 0
       THEN [app |-> app, context |-> ""]
       ELSE IF i = 0
            THEN [app |-> miss, context |-> ""]
            ELSE IF app.now - app.rag_query_cache[i].ts
                        > app.rag_cache_ttl_seconds
                 THEN [app |-> [miss EXCEPT !.rag_query_cache =
                                    Popped(app.rag_query_cache, cache_key)],
                       context |-> ""]
                 ELSE [app |-> [app EXCEPT !.rag_cache_hits = @ + 1],
                       context |-> app.rag_query_cache[i].context]

\* popitem(last=False) while the cache holds more than max_entries
RECURSIVE Trimmed(_, _)
Trimmed(cache, max_entries) ==
    IF Len(cache) > max_entries
    THEN Trimmed(Tail(cache), max_entries)
    ELSE cache

\* _rag_cache_set(cache_key, context): the app afterwards
rag_cache_set(app, cache_key, context) ==
    IF app.rag_cache_ttl_seconds <= 0 \/ context = ""
    THEN app
    ELSE [app EXCEPT !.rag_query_cache =
             Trimmed(Assigned(app.rag_query_cache,
                              [key |-> cache_key, context |-> context,
                               ts |-> app.now]),
                     app.rag_cache_max_entries)]

\* _retrieve_rag_context up to its await (rag_available is true): the cache is
\* asked, a cached context is returned, else the retrieval starts
retrieve_rag_context(c, cache_key) ==
    /\ modal_app.lookups[c].pc = "idle"
    /\ modal_app.rag_cache_hits + modal_app.rag_cache_misses < MaxLookups
    /\ LET got == rag_cache_get(modal_app, cache_key)
       IN modal_app' =
            [got.app EXCEPT
                !.last = [op |-> "get", cache_key |-> cache_key,
                          context |-> got.context],
                !.lookups[c] =
                    IF got.context # ""
                    THEN [pc |-> "idle", cache_key |-> cache_key,
                          returned |-> got.context]
                    ELSE [pc |-> "retrieving", cache_key |-> cache_key,
                          returned |-> ""]]
    /\ UNCHANGED <<service, libcall, limiter>>

\* _retrieve_rag_context from its await on: the retrieval gave final_context,
\* which is stored and returned, or it failed and "" is returned
retrieve_rag_context_done(c, failed, final_context) ==
    /\ modal_app.lookups[c].pc = "retrieving"
    /\ LET stored == IF failed
                     THEN modal_app
                     ELSE rag_cache_set(modal_app,
                                        modal_app.lookups[c].cache_key,
                                        final_context)
       IN modal_app' =
            [stored EXCEPT
                !.last = [op |-> IF failed THEN "none" ELSE "set",
                          cache_key |-> modal_app.lookups[c].cache_key,
                          context |-> IF failed THEN "" ELSE final_context],
                !.lookups[c].pc = "idle",
                !.lookups[c].returned = IF failed THEN "" ELSE final_context]
    /\ UNCHANGED <<service, libcall, limiter>>

\* a second passes
rag_clock_tick ==
    /\ modal_app.now < MaxNowRag
    /\ modal_app' = [modal_app EXCEPT !.now = @ + 1]
    /\ UNCHANGED <<service, libcall, limiter>>

\* SpecRagCache: the app with one of the cache settings, and its handlers
InitRagCache ==
    /\ InitService({1})
    /\ libcall = NoCall
    /\ limiter = RateLimiter
    /\ \E ttl \in RagTtls, max_entries \in RagMaxEntries :
            modal_app = ModalApp(ttl, max_entries)

NextRagCache ==
    \/ \E c \in RagSlots, cache_key \in RagKeys :
            retrieve_rag_context(c, cache_key)
    \/ \E c \in RagSlots, failed \in BOOLEAN, final_context \in RagContexts :
            retrieve_rag_context_done(c, failed, final_context)
    \/ rag_clock_tick

SpecRagCache == InitRagCache /\ [][NextRagCache]_vars

----------------------------------------------------------------------------
(* Claims *)

Slots == DOMAIN turns

\* the turn in slot t works on a stored session state
OnSession(t) == turns[t].pc # "idle" /\ turns[t].obj # 0

\* the step is one of process_debate_turn on object o
PdtStepOn(o) ==
    \E t \in Slots : /\ turns[t].obj = o
                     /\ turns[t].pc \in {"formulate", "synthesize"}
                     /\ turns'[t].pc # turns[t].pc

\* the step is the handler fetching object o for a new turn
FetchStepOn(o) ==
    \E t \in Slots : /\ turns[t].pc = "idle"
                     /\ turns'[t].pc = "formulate"
                     /\ turns'[t].obj = o

BothLive(o) == heap[o].live /\ heap'[o].live

\* C1: when the orchestrated path raises, the MedGemma-only path is run once
\* and always ends in a response: a turn of the orchestrated handler ends
\* either orchestrated with no fallback run or not orchestrated after exactly
\* one, and the apology it returns on total failure has orchestrated = false,
\* suggested_test null and the request's current_differential.
C1_FallbackNeverRaises ==
    \A t \in Slots :
        /\ turns[t].fallback_runs <= 1
        /\ turns[t].pc = "done" =>
              /\ turns[t].response.status = 200
              /\ turns[t].response.orchestrated = (turns[t].fallback_runs = 0)
              /\ turns[t].response.ai_response = "apology" =>
                    /\ ~turns[t].response.orchestrated
                    /\ turns[t].response.suggested_test = None
                    /\ turns[t].response.updated_differential =
                           turns[t].current_differential

\* an orchestrated turn that failed, fell back, failed again and apologises
C1_Witness ==
    \E t \in Slots :
        /\ gemini_available /\ turns[t].pc = "done"
        /\ turns[t].fallback_runs = 1
        /\ turns[t].response.ai_response = "apology"
        /\ turns[t].current_differential # <<>>

\* C2: every debate-turn request that passed validation gets a well-formed
\* result object, never an HTTP-level error, whatever fails inside.
C2_AlwaysWellFormed ==
    \A t \in Slots :
        turns[t].pc = "done" =>
            /\ turns[t].response.status = 200
            /\ turns[t].response.ai_response # ""

\* C3 as stated: a turn whose specialist call timed out yields a result whose
\* ai_response carries the timeout guidance quoting the question, with
\* debate_round incremented once.
C3_AsStated ==
    \A t \in Slots :
        turns[t].pc = "done" /\ turns[t].timed_out =>
            /\ turns[t].response.orchestrated
            /\ turns[t].response.ai_response = "relay"
            /\ heap[turns[t].obj].debate_round = turns[t].round0 + 1

\* C3, amended: on a specialist timeout the turn goes on to synthesis with
\* the timeout text as MedGemma's analysis, guidance quoting the formulated
\* question, and debate_round has been incremented exactly once by the turn.
C3_TimeoutFeedsSynthesis ==
    \A t \in Slots :
        turns[t].timed_out =>
            /\ turns[t].pc \in {"synthesize", "fallback", "done"}
            /\ turns[t].analysis.guidance
            /\ turns[t].analysis.quoted = turns[t].question
            /\ turns[t].question # ""
            /\ heap[turns[t].obj].debate_round = turns[t].round0 + 1

\* a timed-out turn that completed on the orchestrated path with Gemini's
\* own prose
C3_Witness ==
    \E t \in Slots :
        /\ turns[t].pc = "done" /\ turns[t].timed_out
        /\ turns[t].response.orchestrated
        /\ turns[t].response.ai_response = "synth"
        /\ turns[t].question = "q2"

\* C4: a specialist call that cannot be answered in time does not starve
\* other turns: a turn whose own MedGemma call runs for less than the timeout
\* gets its answer and not the timeout text; and no exception of the
\* specialist step leaves process_debate_turn.
C4_NoStarvation ==
    \A t \in Slots :
        /\ turns[t].timed_out =>
              turns[t].call_duration = Hang \/ turns[t].call_duration >= TimeoutTicks
        /\ ~turns[t].specialist_raised

\* C5: debate_round of a stored state never decreases, it changes only by
\* the one increment of a turn's process_debate_turn, and a finished turn,
\* however it ended, has raised it by exactly one.
C5_RoundOncePerTurn ==
    /\ [][\A o \in ObjIds : BothLive(o) =>
            \/ heap'[o].debate_round = heap[o].debate_round
            \/ /\ heap'[o].debate_round = heap[o].debate_round + 1
               /\ \E t \in Slots : turns[t].obj = o /\ turns[t].pc = "formulate"
                                   /\ turns'[t].pc # "formulate"]_vars
    /\ [](\A t \in Slots :
            OnSession(t) /\ turns[t].pc = "done" =>
                heap[turns[t].obj].debate_round = turns[t].round0 + 1)

\* a turn of a session in its third round or later that timed out, fell back
\* and is done
C5_Witness ==
    \E t \in Slots :
        /\ OnSession(t) /\ turns[t].pc = "done"
        /\ turns[t].timed_out /\ turns[t].fallback_runs = 1
        /\ turns[t].round0 >= 2

\* whether a finished turn appended an episode summary
TurnSummarized(t) ==
    Len(heap[turns[t].obj].episode_summaries) # turns[t].nsum0

\* the trigger condition of a turn: after the increment, five rounds since
\* the last episode and at least 4 prior rounds supplied
TurnTrigger(t) ==
    (turns[t].round0 + 1) - turns[t].last0 >= 5 /\ turns[t].nPrev >= 4

\* C6 as stated: a turn creates an episode summary exactly when its trigger
\* condition holds.
C6_AsStated ==
    \A t \in Slots :
        OnSession(t) /\ turns[t].pc = "done" =>
            (TurnSummarized(t) <=> TurnTrigger(t))

\* C6, amended: a turn appends a summary only under its trigger condition; a
\* turn whose synthesis output was parsed asks Gemini for a summary exactly
\* under that condition, and appends exactly one summary, setting
\* last_episode_round to the round, unless Gemini returns blank text; a turn
\* that did not get that far appends none.
C6_EpisodeTrigger ==
    \A t \in Slots :
        OnSession(t) /\ turns[t].pc \in {"fallback", "done"} =>
            LET st == heap[turns[t].obj]
            IN /\ TurnSummarized(t) => TurnTrigger(t)
               /\ turns[t].synthesized =>
                     ((turns[t].summary_call # "none") <=> TurnTrigger(t))
               /\ TurnSummarized(t) <=>
                     turns[t].summary_call \in {"text", "raise"}
               /\ TurnSummarized(t) =>
                     /\ Len(st.episode_summaries) = turns[t].nsum0 + 1
                     /\ st.last_episode_round = turns[t].round0 + 1
               /\ ~TurnSummarized(t) =>
                     st.last_episode_round = turns[t].last0

\* the second summary of a session, created at round 10 after one at round 5
C6_Witness ==
    \E t \in Slots :
        /\ OnSession(t) /\ turns[t].pc = "done"
        /\ turns[t].last0 = 5 /\ turns[t].round0 = 9
        /\ Len(heap[turns[t].obj].episode_summaries) = 2
        /\ heap[turns[t].obj].last_episode_round = 10

\* C7: debate_round >= last_episode_round >= 0 in every stored state, and
\* last_episode_round changes only in a step that appends one summary, to
\* the debate_round of that moment.
C7_EpisodeRoundInvariant ==
    /\ [](\A o \in ObjIds :
            heap[o].live =>
                /\ heap[o].debate_round >= heap[o].last_episode_round
                /\ heap[o].last_episode_round >= 0)
    /\ [][\A o \in ObjIds :
            BothLive(o) /\ heap'[o].last_episode_round # heap[o].last_episode_round =>
                /\ Len(heap'[o].episode_summaries) = Len(heap[o].episode_summaries) + 1
                /\ SubSeq(heap'[o].episode_summaries, 1, Len(heap[o].episode_summaries))
                       = heap[o].episode_summaries
                /\ heap'[o].last_episode_round = heap'[o].debate_round]_vars

\* a state whose last summary was made at round 7, two rounds ago
C7_Witness ==
    \E o \in ObjIds :
        /\ heap[o].live
        /\ heap[o].last_episode_round = 7
        /\ heap[o].debate_round = 9

\* C8: the table never holds more than MAX_SESSIONS sessions, each id once;
\* it changes only by a request for an id that is not in it, which appends
\* that id and, when the table was full, removes exactly the first (the
\* earliest created) entry.
C8_FifoEviction ==
    /\ [](/\ Len(sessions) <= MAX_SESSIONS
          /\ \A i, j \in 1..Len(sessions) :
                sessions[i].sid = sessions[j].sid => i = j)
    /\ [][sessions' # sessions =>
            \E t \in Slots :
                /\ turns[t].pc = "idle" /\ turns'[t].pc = "formulate"
                /\ turns'[t].session_id \notin SessionIdsOf(sessions)
                /\ sessions' =
                      Append(IF Len(sessions) = MAX_SESSIONS
                             THEN Tail(sessions) ELSE sessions,
                             [sid |-> turns'[t].session_id, obj |-> turns'[t].obj])]_vars
    /\ [][\A t \in Slots :
            turns[t].pc = "idle" /\ turns'[t].pc = "formulate"
            /\ turns'[t].session_id \in SessionIdsOf(sessions) =>
                sessions' = sessions]_vars

\* a handler that evicted a session whose state had taken turns, with the
\* table full again
C8_Witness ==
    \E t \in Slots :
        /\ turns[t].pc # "idle"
        /\ turns[t].oldest_session # None
        /\ turns[t].oldest_session \notin SessionIdsOf(sessions)
        /\ Len(sessions) = MAX_SESSIONS

\* C9 as stated: a stored state is changed only by process_debate_turn.
C9_AsStated ==
    [][\A o \in ObjIds : BothLive(o) /\ heap'[o] # heap[o] => PdtStepOn(o)]_vars

\* C9, amended: a stored state is changed only by process_debate_turn, and
\* by the handler when it fetches the state for a turn, which overwrites its
\* differential with the request's current_differential and nothing else.
C9_OnlyTurnAndSync ==
    [][\A o \in ObjIds :
        BothLive(o) /\ heap'[o] # heap[o] =>
            \/ PdtStepOn(o)
            \/ /\ FetchStepOn(o)
               /\ \E t \in Slots :
                    /\ turns'[t].obj = o
                    /\ heap'[o] = [heap[o] EXCEPT !.differential =
                                       turns'[t].current_differential]]_vars

\* the handler has fetched the state of a session that has taken a turn
\* already, and the stored differential is the request's empty one
C9_Witness ==
    \E t \in Slots :
        /\ turns[t].pc = "formulate" /\ turns[t].obj # 0
        /\ turns[t].round0 >= 1
        /\ turns[t].current_differential = <<>>
        /\ heap[turns[t].obj].differential = <<>>

\* C10: patient_history and image_context of a stored state never change,
\* and the turn that created the state gave it the request's patient_history.
C10_HistoryImmutable ==
    /\ [][\A o \in ObjIds :
            BothLive(o) =>
                /\ heap'[o].patient_history = heap[o].patient_history
                /\ heap'[o].image_context = heap[o].image_context]_vars
    /\ [](\A t \in Slots :
            OnSession(t) /\ turns[t].pc = "formulate" /\ turns[t].round0 = 0 =>
                heap[turns[t].obj].patient_history = turns[t].patient_history)

\* a finished turn of an existing session whose request carried another
\* patient history than the session was created with
C10_Witness ==
    \E t \in Slots :
        /\ OnSession(t) /\ turns[t].pc = "done"
        /\ turns[t].round0 >= 1
        /\ turns[t].patient_history # heap[turns[t].obj].patient_history
        /\ heap[turns[t].obj].image_context = "img1"

IsPrefix(a, b) == Len(a) <= Len(b) /\ SubSeq(b, 1, Len(a)) = a

\* C11: key_findings, ruled_out and episode_summaries only grow at the end:
\* every step leaves the old list as a prefix of the new one; only the update
\* step of process_debate_turn changes key_findings or ruled_out, and it
\* appends exactly the result's key_findings_update / newly_ruled_out, so a
\* result without them leaves the list as it was.
C11_AppendOnly ==
    [][\A o \in ObjIds :
        BothLive(o) =>
            /\ IsPrefix(heap[o].key_findings, heap'[o].key_findings)
            /\ IsPrefix(heap[o].ruled_out, heap'[o].ruled_out)
            /\ IsPrefix(heap[o].episode_summaries, heap'[o].episode_summaries)
            /\ \/ /\ heap'[o].key_findings = heap[o].key_findings
                  /\ heap'[o].ruled_out = heap[o].ruled_out
               \/ \E t \in Slots :
                    /\ turns[t].obj = o /\ turns[t].pc = "synthesize"
                    /\ turns'[t].synthesized
                    /\ heap'[o].key_findings =
                           heap[o].key_findings \o turns'[t].key_findings_update
                    /\ heap'[o].ruled_out =
                           heap[o].ruled_out \o turns'[t].newly_ruled_out]_vars

\* a turn that added a second key finding, and no ruled-out diagnosis, to a
\* session that has one of each and an episode summary
C11_Witness ==
    \E t \in Slots :
        /\ OnSession(t) /\ turns[t].pc = "done"
        /\ turns[t].key_findings_update # <<>>
        /\ turns[t].newly_ruled_out = <<>>
        /\ Len(heap[turns[t].obj].key_findings) = 2
        /\ Len(heap[turns[t].obj].ruled_out) = 1
        /\ Len(heap[turns[t].obj].episode_summaries) >= 1

\* the call of fn under examination has come back
Came(fn) == libcall.fn = fn /\ libcall.pc = "returned"

\* C12: neither parser raises for a non-empty text, and for a text without
\* an opening brace each returns the minimal record with the raw text
\* (cut at RawTextLimit characters) as ai_response.
C12_ParserNeverRaises ==
    (Came("extract_json") \/ Came("parse_orchestrator_response"))
    /\ libcall.arg # <<>> =>
        /\ ~libcall.outcome.raised
        /\ Find(libcall.arg, LBRACE) = 0 =>
               libcall.outcome.val =
                   Obj(MinimalRecord(Take(libcall.arg, RawTextLimit)))

\* the fields of object doc that are complete within its first cut
\* characters are in the record out with the value they have in doc
KeepsFields(doc, cut, out) ==
    \A i \in 1..Len(Docs[doc].v) :
        ItemEnd(Docs[doc].v, i) <= cut =>
            /\ out.t = "obj"
            /\ HasKey(out.v, Docs[doc].v[i].k)
            /\ DictGet(out.v, Docs[doc].v[i].k, Null) = Docs[doc].v[i].val

\* C13: extract_json of an object's text cut short anywhere returns a record
\* holding every field that was complete before the cut, with its value.
C13_TruncationKeepsFields ==
    Came("extract_json") /\ libcall.doc # 0
    /\ libcall.cut < Len(Dumps(Docs[libcall.doc])) =>
        /\ ~libcall.outcome.raised
        /\ KeepsFields(libcall.doc, libcall.cut, libcall.outcome.val)

\* the object inside the ai_response of items, when that is the text of an
\* object with an ai_response key
InnerOf(items) ==
    LET ai_response == DictGet(items, AI_RESPONSE, Null)
        inner == IF ai_response.t = "str" THEN json_loads(ai_response.v)
                 ELSE Failed
    IN IF /\ ai_response.t = "str"
          /\ ai_response.v # <<>> /\ Head(ai_response.v) = LBRACE
          /\ inner.ok /\ inner.val.t = "obj" /\ HasKey(inner.val.v, AI_RESPONSE)
       THEN inner.val.v ELSE <<>>

\* C14: for a reply whose ai_response is the text of an object with an
\* ai_response key, _parse_orchestrator_response returns the outer fields
\* overwritten by the inner ones, and the ai_response it returns is a string
\* that is no JSON text.
C14_InnerWins ==
    Came("parse_orchestrator_response") /\ libcall.doc # 0
    /\ libcall.cut = Len(Dumps(Docs[libcall.doc]))
    /\ InnerOf(Docs[libcall.doc].v) # <<>> =>
        LET inner == InnerOf(Docs[libcall.doc].v)
            out == libcall.outcome
        IN /\ ~out.raised
           /\ \A i \in 1..Len(inner) :
                  inner[i].k # AI_RESPONSE =>
                      DictGet(out.val.v, inner[i].k, Null) = inner[i].val
           /\ DictGet(out.val.v, AI_RESPONSE, Null).t = "str"
           /\ ~json_loads(DictGet(out.val.v, AI_RESPONSE, Null).v).ok

\* the canonical shape of a diagnosis: the five fields, a probability that is
\* high, medium or low, and lists of evidence and tests
IsCanonical(dx) ==
    /\ dx.t = "obj"
    /\ [i \in 1..Len(dx.v) |-> dx.v[i].k] =
           <<<<"name">>, <<"probability">>, <<"supporting_evidence">>,
             <<"against_evidence">>, <<"suggested_tests">>>>
    /\ dx.v[1].val.t = "str"
    /\ dx.v[2].val.t = "str" /\ dx.v[2].val.v \in Probabilities
    /\ \A i \in 3..5 : dx.v[i].val.t = "arr"

AllCanonical(differential) ==
    \A i \in 1..Len(differential) : IsCanonical(differential[i])

\* the differential of every response is in the canonical shape
ReturnedCanonical ==
    \A t \in Slots :
        turns[t].response # NoResponse =>
            AllCanonical(turns[t].response.updated_differential)

\* C15: every diagnosis of a differential returned to the caller, and of a
\* differential stored in a session's state, has the canonical shape.
C15_Normalized ==
    /\ ReturnedCanonical
    /\ \A o \in ObjIds : heap[o].live => AllCanonical(heap[o].differential)

\* the requests of identifier that were allowed in the window_seconds up to
\* and including time t
GrantedIn(identifier, t) ==
    {i \in 1..Len(limiter.granted[identifier]) :
        /\ limiter.granted[identifier][i] > t - window_seconds
        /\ limiter.granted[identifier][i] <= t}

\* C16: no identifier is allowed more than max_requests requests in any
\* window of window_seconds; a request is denied only when max_requests were
\* allowed in its window, with remaining 0 and a positive retry_after; an
\* allowed request reports max_requests minus the requests in its window, it
\* included; a call for one identifier leaves the others' records alone.
C16_SlidingWindow ==
    /\ [](\A id \in Identifiers, t \in 0..MaxNow :
             Cardinality(GrantedIn(id, t)) <= max_requests)
    /\ [](limiter.last.identifier # "" =>
             LET counted == Cardinality(GrantedIn(limiter.last.identifier,
                                                   limiter.last.at))
             IN IF limiter.last.allowed
                THEN /\ limiter.last.remaining = max_requests - counted
                     /\ limiter.last.retry_after = 0
                ELSE /\ counted = max_requests
                     /\ limiter.last.remaining = 0
                     /\ limiter.last.retry_after > 0)
    /\ [][\A id \in Identifiers :
             limiter'.last.identifier # id =>
                 /\ limiter'.requests[id] = limiter.requests[id]
                 /\ limiter'.granted[id] = limiter.granted[id]]_vars

\* ip1 used up a window, was allowed again once it had passed, and is now
\* denied with two seconds to wait, while ip2 has been allowed
C16_Witness ==
    /\ Len(limiter.granted["ip1"]) > max_requests
    /\ limiter.granted["ip1"][max_requests] = 0
    /\ Len(limiter.granted["ip2"]) >= 1
    /\ ~limiter.last.allowed /\ limiter.last.identifier = "ip1"
    /\ limiter.last.retry_after = 2
    /\ Len(limiter.requests["ip1"]) = max_requests

\* the occurrences of a number with a unit that check_hallucination is to
\* flag: those whose value and written unit are not within tolerance of a
\* provided pair (of the lab values or of the history) and whose nearest
\* lab test name is not among the provided names
ToFlag(x) ==
    LET items == extract_numeric_values(x.provided_patient_history)
        provided ==
            {<<x.provided_lab_values[i].value,
               normalize_unit(x.provided_lab_values[i].unit)>> :
                i \in 1..Len(x.provided_lab_values)}
            \cup {<<items[i].value, normalize_unit(items[i].written_unit)>> :
                     i \in 1..Len(items)}
        Fabricated(occ) ==
            /\ ~\E pair \in provided :
                  /\ Abs(pair[1] - occ.value) < Tolerance
                  /\ pair[2] = normalize_unit(occ.written_unit)
            /\ find_closest_lab(x.generated_text, occ.position) # <<>>
            /\ find_closest_lab(x.generated_text, occ.position)
                   \notin ProvidedLabsNormalized(x.provided_lab_values)
        occs == SelectSeq(extract_numeric_values(x.generated_text), Fabricated)
    IN [i \in 1..Len(occs) |-> occs[i].full_match]

\* C17: check_hallucination flags exactly the occurrences that are not
\* within tolerance of a provided (value, unit) pair and whose nearest lab
\* test name is not among the provided names.
C17_FlagsExactly ==
    Came("check_hallucination") =>
        [i \in 1..Len(libcall.outcome.val) |-> libcall.outcome.val[i].full_match]
            = ToFlag(libcall.arg)

\* C18: a turn that ends with a result parsed from a model's output, on
\* either path, has had validate_debate_response run on it.
C18_ValidatorOnEveryTurn ==
    \A t \in Slots :
        turns[t].pc = "done" /\ turns[t].response.ai_response # "apology" =>
            turns[t].validations >= 1

\* C19: the MedGemma-only path validates once, generates a second time only
\* when the validator reported a hallucination, and never a third time: the
\* turn ends with what the second generation gave.
C19_OneReprompt ==
    \A t \in Slots :
        /\ turns[t].generations <= 2
        /\ turns[t].validations <= 1
        /\ turns[t].fallback_runs <= 1
        /\ turns[t].generations = 2 <=> turns[t].has_hallucination
        /\ turns[t].has_hallucination => turns[t].validations = 1

\* a turn that ends with the output of the re-prompt
C19_Witness ==
    \E t \in Slots :
        /\ turns[t].pc = "done" /\ turns[t].has_hallucination
        /\ turns[t].generations = 2
        /\ turns[t].response.ai_response = "medgemma_text"

\* extract_citations has returned, the first time or the second
CitationsCame ==
    libcall.fn = "extract_citations" /\ libcall.pc \in {"returned", "again"}

\* the matches that are the first of their (source, year) key, in match order
FirstOfKey(cites) ==
    LET firsts == {i \in 1..Len(cites) :
                       \A j \in 1..(i - 1) :
                           normalize_citation_key(cites[j]) # normalize_citation_key(cites[i])}
        nth(k) == CHOOSE i \in firsts : Cardinality({j \in firsts : j < i}) = k - 1
    IN [k \in 1..Cardinality(firsts) |-> cites[nth(k)]]

\* the two forms of the NCCN citation of 2024
FullForm == <<"(", "N", "C", "C", "N", " ", "G", "u", "i", "d", "e", "l", "i", "n", "e", "s", ",", " ", "2", "0", "2", "4", ")">>
SimpleForm == <<"(", "N", "C", "C", "N", " ", "2", "0", "2", "4", ")">>

\* the citations of source NCCN for the year 2024
Nccn2024(cites) ==
    SelectSeq(cites, LAMBDA c : normalize_citation_key(c) = <<"NCCN", <<"2", "0", "2", "4">>>>)

\* C20: extract_citations is idempotent: applied to the text it returned it
\* returns the same text and the same citations. What it returns never holds
\* two citations of the same (source, year) key: it is the matches that are the
\* first of their key, in match order. A text with both "(NCCN Guidelines,
\* 2024)" and "(NCCN 2024)" gives one citation of source NCCN for the two.
C20_Deduplicated ==
    /\ [](CitationsCame =>
            LET out == libcall.outcome.val.citations
            IN /\ libcall.outcome.val.text = libcall.arg
               /\ \A i, j \in 1..Len(out) :
                      i # j => normalize_citation_key(out[i]) # normalize_citation_key(out[j])
               /\ out = FirstOfKey(citations(libcall.arg))
               /\ Contains(libcall.arg, FullForm) /\ Contains(libcall.arg, SimpleForm)
                      => Len(Nccn2024(out)) = 1 /\ Nccn2024(out)[1].source = "NCCN")
    /\ [][libcall.fn = "extract_citations" /\ libcall.pc = "returned"
              /\ libcall'.pc = "again"
          => libcall'.outcome = libcall.outcome]_vars

\* the simple form before the full one: two matches of one key, the full form
\* is the first in match order and the only citation of both calls
C20_Witness ==
    /\ libcall.fn = "extract_citations" /\ libcall.pc = "again"
    /\ libcall.arg = SimpleForm \o PassageEnd \o FullForm
    /\ Len(citations(libcall.arg)) = 2
    /\ citations(libcall.arg)[2].text = SimpleForm
    /\ libcall.outcome.val.citations =
           <<[text |-> FullForm, url |-> "NCCN", source |-> "NCCN"]>>

\* the passages that are one parenthetical CDC guideline citation with a year
CdcLegionellaForm == <<"(", "C", "D", "C", " ", "L", "e", "g", "i", "o", "n", "e", "l", "l", "a", " ", "G", "u", "i", "d", "e", "l", "i", "n", "e", "s", ",", " ", "2", "0", "2", "4", ")">>
CdcPlainForm == <<"(", "C", "D", "C", " ", "G", "u", "i", "d", "e", "l", "i", "n", "e", "s", ",", " ", "2", "0", "2", "4", ")">>

CdcForms == {CdcLegionellaForm, CdcPlainForm}

\* C21: extract_citations of a text that is one parenthetical CDC guideline
\* citation with a year returns exactly one citation; its source is "CDC" and
\* its url is GUIDELINE_URLS["CDC"].
C21_CdcCitation ==
    CitationsCame /\ libcall.arg \in CdcForms
        => libcall.outcome.val.citations =
               <<[text |-> libcall.arg, url |-> GUIDELINE_URLS("CDC"), source |-> "CDC"]>>

\* the turn in slot t has a retrieval task and has stopped waiting for it
Joined(t) == turns[t].rag_task \in {"done", "cancelled"}

\* the retrieval of the turn in slot t timed out, was turned down or raised
RetrievalFailed(t) ==
    LET r == turns[t].retrieval
    IN \/ r.seconds > RagTimeout
       \/ ~r.initialized \/ ~r.allowed \/ ~r.valid
       \/ r.raises # "none"

\* C22: with the retriever available the handler creates the retrieval task
\* in the step that does the session bookkeeping and stops waiting for it,
\* after RagTimeout seconds at most, before process_debate_turn starts, so
\* before the first Gemini call and the MedGemma call. A retrieval that times
\* out, reports an error, is turned down by the rate limiter or raises gives
\* the empty retrieved context, any other gives the formatted chunks within
\* the distance threshold, and from the wait the turn always goes on to
\* process_debate_turn.
C22_RetrievalJoined ==
    /\ [](\A t \in Slots :
            /\ turns[t].pc = "rag_join" => turns[t].rag_task = "pending"
            /\ OnSession(t) /\ turns[t].pc # "rag_join"
                   => /\ Joined(t)
                      /\ turns[t].rag_waited <= RagTimeout
                      /\ RetrievalFailed(t) => turns[t].retrieved_context = ""
                      /\ ~RetrievalFailed(t) =>
                            turns[t].retrieved_context =
                                format_retrieved_context(
                                    SelectSeq(turns[t].retrieval.distances,
                                              LAMBDA d : d <= RAG_DISTANCE_THRESHOLD)))
    /\ [][\A t \in Slots :
            /\ turns[t].pc = "idle" /\ turns'[t].pc # "idle" /\ gemini_available
                   => turns'[t].pc = "rag_join"
            /\ turns[t].pc = "rag_join" /\ turns'[t].pc # "rag_join"
                   => turns'[t].pc = "formulate" /\ turns'[t].response = NoResponse
            /\ turns[t].pc # "rag_join" /\ turns'[t].pc = "formulate"
                   => FALSE]_vars

\* a turn whose retrieval was turned down by the retriever's rate limiter
\* completes on the orchestrated path
C22_Witness ==
    \E t \in Slots :
        /\ turns[t].pc = "done" /\ turns[t].response.orchestrated
        /\ turns[t].rag_task = "done"
        /\ turns[t].retrieval.initialized /\ ~turns[t].retrieval.allowed
        /\ turns[t].retrieval.distances # <<>>
        /\ turns[t].retrieved_context = ""

\* the episode summaries of the session the turn in slot t works on
SummariesOf(t) == heap[turns[t].obj].episode_summaries

\* C23: _create_episode_summary never raises: when the Gemini call of the
\* summary fails the fallback text naming the number of rounds is what the
\* session keeps, under 4 rounds Gemini is not called and nothing is kept,
\* and no turn leaves process_debate_turn for the MedGemma-only path because
\* of the summary.
C23_SummaryNeverRaises ==
    \A t \in Slots :
        OnSession(t) /\ turns[t].synthesized
            => /\ ~turns[t].summary_raised
               /\ turns[t].summary_call = "raise"
                      => /\ Len(SummariesOf(t)) = turns[t].nsum0 + 1
                         /\ SummariesOf(t)[Len(SummariesOf(t))] =
                                FallbackSummary(Min(turns[t].nPrev, 5))
               /\ turns[t].nPrev < 4
                      => /\ turns[t].summary_call = "none"
                         /\ Len(SummariesOf(t)) = turns[t].nsum0

\* C24: the response of every debate turn carries the session id: the id of
\* the request, or the one generated for a request without an id, on the
\* orchestrated path and on the MedGemma-only path alike.
C24_ResponseCarriesSessionId ==
    \A t \in Slots :
        turns[t].pc = "done"
            => /\ turns[t].response.session_id # None
               /\ turns[t].session_id # None
                      => turns[t].response.session_id = turns[t].session_id

\* the calls of a turn that asks for an episode summary, in the order of the code
CallOrder == <<"formulate", "specialist", "synthesize", "summary">>

\* the number of calls of a log that go to the models named
CountOf(calls, names) == Cardinality({i \in 1..Len(calls) : calls[i] \in names})

Called(t, name) == \E i \in 1..Len(turns[t].calls) : turns[t].calls[i] = name

\* the fields of a session state that process_debate_turn writes after parsing
Written(st) ==
    <<st.key_findings, st.ruled_out, st.episode_summaries, st.last_episode_round>>

\* C25 as stated: a turn that completes on the orchestrated path has called
\* Gemini exactly twice and MedGemma exactly once.
C25_TwoGeminiCalls ==
    \A t \in Slots :
        turns[t].pc = "done" /\ turns[t].response.orchestrated
            => /\ CountOf(turns[t].calls, {"formulate", "synthesize", "summary"}) = 2
               /\ CountOf(turns[t].calls, {"specialist"}) = 1

\* C25: the calls of a turn are made in the order formulate, MedGemma,
\* synthesize, episode summary: MedGemma is called with the formulated
\* question, the synthesis with MedGemma's answer or the timeout text. A turn
\* that completes on the orchestrated path has called MedGemma once and Gemini
\* twice, or three times when the episode summary asked Gemini, which is the
\* last call. The findings, the ruled-out list and the episode summaries of
\* the session change only in the step of the synthesis call and its parsing.
C25_CallOrder ==
    /\ [](\A t \in Slots :
            /\ IsPrefix(turns[t].calls, CallOrder)
            /\ Called(t, "specialist") => turns[t].question # ""
            /\ Called(t, "synthesize") => turns[t].analysis # NoAnalysis
            /\ turns[t].pc = "done" /\ turns[t].response.orchestrated
                   => /\ CountOf(turns[t].calls, {"specialist"}) = 1
                      /\ CountOf(turns[t].calls, {"formulate", "synthesize"}) = 2
                      /\ Called(t, "summary") <=> turns[t].summary_call # "none")
    /\ [][\A t \in Slots :
            /\ OnSession(t) /\ turns'[t].obj = turns[t].obj
            /\ Written(heap'[turns[t].obj]) # Written(heap[turns[t].obj])
            => ~Called(t, "synthesize") /\ turns'[t].synthesized]_vars

\* a turn that timed out on MedGemma, went on to the synthesis and asked
\* Gemini for the episode summary completes with three Gemini calls
C25_Witness ==
    \E t \in Slots :
        /\ turns[t].pc = "done" /\ turns[t].response.orchestrated
        /\ turns[t].timed_out
        /\ turns[t].calls = CallOrder
        /\ Len(heap[turns[t].obj].episode_summaries) = turns[t].nsum0 + 1

\* the fields of a session state that an abandoned attempt is to leave alone
Kept(st) ==
    <<st.key_findings, st.ruled_out, st.differential, st.episode_summaries,
      st.last_episode_round>>

\* C26: when the handler gives up the orchestrated attempt of a turn for the
\* MedGemma-only path, the session state has the round increment of the
\* attempt and nothing else of it: the step that gives up leaves key_findings,
\* ruled_out, differential, episode_summaries and last_episode_round as they
\* were, and the summaries and the episode round are those the handler found.
C26_FallbackKeepsNoUpdate ==
    /\ [](\A t \in Slots :
            OnSession(t) /\ turns[t].pc = "fallback"
                => /\ heap[turns[t].obj].debate_round = turns[t].round0 + 1
                   /\ Len(heap[turns[t].obj].episode_summaries) = turns[t].nsum0
                   /\ heap[turns[t].obj].last_episode_round = turns[t].last0)
    /\ [][\A t \in Slots :
            OnSession(t) /\ turns[t].pc # "fallback" /\ turns'[t].pc = "fallback"
                => Kept(heap'[turns[t].obj]) = Kept(heap[turns[t].obj])]_vars

\* the session of the turn in slot t has been evicted while the turn is in
\* flight: the state the turn works on is no longer the table's
Evicted(t) ==
    /\ OnSession(t)
    /\ \A i \in 1..Len(sessions) : sessions[i].obj # turns[t].obj

\* the states the table holds
Tabled(h) == [i \in 1..Len(sessions) |-> h[sessions[i].obj]]

\* C27: a request for a new session id at capacity evicts the oldest session
\* also when a turn of that session is in flight. The turn keeps its state
\* object, which no other session is given: its steps write that object and
\* no state of the table, it runs to its end and its response carries its
\* session id when it completes on the orchestrated path. A session id that
\* is not in the table, an evicted one among them, gets a fresh state with
\* debate_round 0.
C27_EvictedInFlight ==
    /\ [](\A t \in Slots :
            Evicted(t)
                => /\ heap[turns[t].obj].live
                   /\ \A u \in Slots : u # t => turns[u].obj # turns[t].obj
                   /\ turns[t].pc = "done" /\ turns[t].response.orchestrated
                          => /\ turns[t].response.session_id = turns[t].session_id
                             /\ heap[turns[t].obj].debate_round = turns[t].round0 + 1
                             /\ heap[turns[t].obj].differential = <<DxC>>)
    /\ [][\A t \in Slots :
            /\ Evicted(t) /\ turns'[t].pc # turns[t].pc /\ turns'[t].pc # "idle"
                   => Evicted(t)' /\ Tabled(heap') = Tabled(heap)
            /\ turns[t].pc = "idle" /\ turns'[t].pc = "formulate"
                   /\ turns'[t].session_id \notin SessionIdsOf(sessions)
                   => /\ heap'[turns'[t].obj].debate_round = 0
                      /\ ~heap[turns'[t].obj].live
                      /\ ObjOf(sessions', turns'[t].session_id) = turns'[t].obj]_vars
    /\ \A t \in {1, 2} : Evicted(t) ~> (turns[t].pc = "done")

\* the table is full of other sessions while the turn of an evicted session
\* completes on the orchestrated path, its updates in its own state object
C27_Witness ==
    \E t \in Slots :
        /\ Evicted(t) /\ turns[t].pc = "done" /\ turns[t].response.orchestrated
        /\ turns[t].session_id = "s1"
        /\ SessionIdsOf(sessions) = {"s2", "u1"}
        /\ heap[turns[t].obj].debate_round = 1
        /\ heap[turns[t].obj].differential = <<DxC>>
        /\ \A i \in 1..Len(sessions) : heap[sessions[i].obj].differential # <<DxC>>

\* the latest call of is_allowed was a denial of identifier id
DeniedLast(lim, id) == lim.last.identifier = id /\ ~lim.last.allowed

\* the time of the latest allowed request of id
LastGranted(id) == limiter.granted[id][Len(limiter.granted[id])]

\* C28: is_allowed records allowed requests only: the timestamps it keeps
\* for an identifier are the latest of those at which it allowed one, and a
\* denial adds none. Denials that follow one another promise the same
\* moment, so asking again does not prolong the wait. An identifier denied
\* with retry_after = r that has not called since is allowed once r seconds
\* have passed, and an identifier whose latest allowed request is
\* window_seconds old or older is allowed with max_requests - 1 remaining.
C28_DenialsNotRecorded ==
    /\ [](\A id \in Identifiers :
            /\ \E k \in 0..Len(limiter.granted[id]) :
                   limiter.requests[id] =
                       SubSeq(limiter.granted[id], k + 1, Len(limiter.granted[id]))
            /\ DeniedLast(limiter, id)
                   /\ limiter.now >= limiter.last.at + limiter.last.retry_after
                   => is_allowed(limiter, id).last.allowed
            /\ limiter.granted[id] = <<>>
                   \/ limiter.now >= LastGranted(id) + window_seconds
                   => /\ is_allowed(limiter, id).last.allowed
                      /\ is_allowed(limiter, id).last.remaining = max_requests - 1)
    /\ [][\A id \in Identifiers :
            /\ DeniedLast(limiter', id) /\ limiter'.last # limiter.last
                   => /\ limiter'.granted[id] = limiter.granted[id]
                      /\ Len(limiter'.requests[id]) <= Len(limiter.requests[id])
            /\ DeniedLast(limiter, id) /\ DeniedLast(limiter', id)
                   => limiter'.last.at + limiter'.last.retry_after =
                          limiter.last.at + limiter.last.retry_after]_vars

\* ip1, denied at second 1 with window_seconds to wait, has kept quiet for
\* them: its next request is allowed, with the full quota
C28_Witness ==
    /\ DeniedLast(limiter, "ip1")
    /\ limiter.last.at = 1 /\ limiter.last.retry_after = window_seconds
    /\ limiter.now = limiter.last.at + limiter.last.retry_after
    /\ Len(limiter.requests["ip1"]) = max_requests
    /\ is_allowed(limiter, "ip1").last.allowed
    /\ is_allowed(limiter, "ip1").last.remaining = max_requests - 1

\* C29: one call of _call_vllm_chat or of query_medgemma sends at most two
\* requests, the second only after a token-budget error (with a strictly
\* smaller max_tokens) or an input overflow (with a max_tokens not larger) and
\* never with less than 128; a call that has ended raised RuntimeError or
\* returned a content that is not empty.
C29_VllmRetry ==
    libcall.fn \in {"_call_vllm_chat", "query_medgemma"} =>
        /\ Len(libcall.sent) <= 2
        /\ Len(libcall.sent) >= 1 => libcall.sent[1].follows = "call"
        /\ Len(libcall.sent) = 2 =>
            /\ libcall.sent[2].follows \in {"token_budget", "input_overflow"}
            /\ libcall.sent[2].follows = "token_budget" =>
                   libcall.sent[2].max_tokens < libcall.sent[1].max_tokens
            /\ libcall.sent[2].max_tokens <= libcall.sent[1].max_tokens
            /\ libcall.sent[2].max_tokens >= FloorTokens
        /\ libcall.pc = "returned" =>
            /\ Len(libcall.sent) >= 1
            /\ IF libcall.outcome.raised
               THEN libcall.outcome.exc = "RuntimeError"
               ELSE libcall.outcome.val.content # ""

\* the keys of the cache's entries, in the cache's order
KeysOf(cache) == [i \in 1..Len(cache) |-> cache[i].key]

\* the step is a call of _rag_cache_get, of _rag_cache_set
GetStep ==
    /\ modal_app'.last.op = "get" /\ modal_app'.now = modal_app.now
    /\ modal_app' # modal_app
SetStep ==
    /\ modal_app'.last.op = "set" /\ modal_app'.now = modal_app.now
    /\ \E c \in RagSlots :
            modal_app.lookups[c].pc = "retrieving"
            /\ modal_app'.lookups[c].pc = "idle"
            /\ modal_app'.lookups[c].returned = modal_app'.last.context
            /\ modal_app.lookups[c].cache_key = modal_app'.last.cache_key

\* the entry of the key the step is about, as it stood before the step
\* (<<>> when there was none), and its age
EntryBefore ==
    SelectSeq(modal_app.rag_query_cache,
              LAMBDA e : e.key = modal_app'.last.cache_key)
Expired(e) == modal_app.now - e.ts > modal_app.rag_cache_ttl_seconds

\* C30: the cache never returns an entry older than rag_cache_ttl_seconds (an
\* expired entry is removed by the lookup, which counts as a miss), holds no
\* empty context and at most rag_cache_max_entries entries, a call of
\* _rag_cache_set removes the entries inserted first (a key keeps the place
\* of its first insertion), and a lookup of an enabled cache adds one to
\* exactly one of the hit and miss counters.
C30_RagCache ==
    /\ [](modal_app # NoApp =>
            /\ Len(modal_app.rag_query_cache) <= modal_app.rag_cache_max_entries
            /\ \A i \in 1..Len(modal_app.rag_query_cache) :
                    modal_app.rag_query_cache[i].context # "")
    /\ [][GetStep =>
            /\ modal_app.rag_cache_ttl_seconds > 0 =>
                \/ /\ modal_app'.rag_cache_hits = modal_app.rag_cache_hits + 1
                   /\ modal_app'.rag_cache_misses = modal_app.rag_cache_misses
                \/ /\ modal_app'.rag_cache_hits = modal_app.rag_cache_hits
                   /\ modal_app'.rag_cache_misses = modal_app.rag_cache_misses + 1
            /\ modal_app'.last.context # "" =>
                /\ EntryBefore # <<>>
                /\ ~Expired(EntryBefore[1])
                /\ modal_app'.last.context = EntryBefore[1].context
                /\ modal_app'.rag_cache_hits = modal_app.rag_cache_hits + 1
            /\ EntryBefore # <<>> /\ Expired(EntryBefore[1]) =>
                /\ modal_app'.rag_query_cache =
                       Popped(modal_app.rag_query_cache, modal_app'.last.cache_key)
                /\ modal_app'.rag_cache_misses = modal_app.rag_cache_misses + 1
                /\ modal_app'.last.context = ""]_vars
    /\ [][SetStep =>
            LET old == KeysOf(modal_app.rag_query_cache)
                new == KeysOf(modal_app'.rag_query_cache)
                key == modal_app'.last.cache_key
                inserted == IF \E i \in 1..Len(old) : old[i] = key
                            THEN old
                            ELSE Append(old, key)
            IN IF modal_app.rag_cache_ttl_seconds > 0
                    /\ modal_app'.last.context # ""
               THEN \E n \in 0..Len(inserted) :
                        new = SubSeq(inserted, n + 1, Len(inserted))
               ELSE new = old]_vars

\* C30 witness: with a cache of one entry and nothing old enough to expire,
\* a context that was stored and returned for k1 has made way for k2, and a
\* lookup was a hit
C30_Witness ==
    /\ modal_app # NoApp
    /\ modal_app.rag_cache_ttl_seconds = 1 /\ modal_app.now <= 1
    /\ modal_app.rag_cache_max_entries = 1
    /\ modal_app.lookups[1] =
           [pc |-> "idle", cache_key |-> "k1", returned |-> "guideline"]
    /\ KeysOf(modal_app.rag_query_cache) = <<"k2">>
    /\ modal_app.rag_cache_hits >= 1
    /\ modal_app.rag_cache_misses >= 2

====
